---- MODULE Spec2Model ----
(***************************************************************************)
(* Model of cibo's write-ahead log: the Log Writer (db/log_writer.rs), the *)
(* Buffered File Writer (util/file_reader_writer.rs) and the POSIX file    *)
(* primitives (env/io_posix.rs).                                           *)
(*                                                                         *)
(* Sizes are scaled down so that the cases the code distinguishes (block   *)
(* boundaries, page boundaries, a full buffer) are reached with payloads   *)
(* of a few bytes: the block is kBlockSize bytes instead of 32768, the     *)
(* page kAlignment bytes instead of 4096, the first buffer kInitCapacity   *)
(* bytes instead of 65536.  The header sizes (7 and 11) are the program's. *)
(*                                                                         *)
(* Every handler is a pure operator over the record of the object it acts  *)
(* on and is computed as the code computes it, statement by statement;     *)
(* loops are RECURSIVE operators.  An action applies one handler whole.    *)
(***************************************************************************)
EXTENDS Integers, Sequences, FiniteSets, TLC

(* ---------------------------------------------------------------- bounds *)
\* log_format.rs kBlockSize (32768 in the program), scaled.
kBlockSize == 16
\* WritableFileWriter::new: buf.alignment(4 * 1024), scaled.
kAlignment == 2
\* WritableFileWriter::new: buf.allocate_new_buffer(65536, false), scaled.
kInitCapacity == 4
\* flush: k_bytes_not_sync_range (1024 * 1024), scaled.
kBytesNotSyncRange == 4
\* flush: k_bytes_align_when_sync (4 * 1024), scaled.
kBytesAlignWhenSync == 2
\* Longest data of one WritableFileWriter.append call of SpecFile.
MaxData == 5
\* Calls per behaviour of SpecFile.
MaxCalls == 4
\* Longest payload of one add_record call of Spec.
MaxPayload == 12
\* add_record calls per behaviour of Spec.
MaxRecords == 2
\* Which OS call of a handler may be made to fail: the 1st .. the MaxFail-th.
MaxFail == 2
\* EnvOptions.bytes_per_sync of the writers of SpecFile.
BytesPerSync == 2
\* preallocation_block_size handed to PosixWritableFile::new.
PreallocationBlockSize == 8
\* ... handed to it for the bare handle of SpecPosix, when not 0.
PosixPreallocationBlockSize == 2
\* Calls of prepare_write made on a bare file handle in one behaviour.
MaxPrepares == 3
\* Bytes skipped forward by one call of skip.
MaxSkip == 2

\* Calls made on a bare file handle in one behaviour.
MaxPosixCalls == 2
\* Bytes handed to one append or positioned_append on a bare file handle.
MaxWrite == 3
\* Largest offset handed to positioned_append on a bare file handle.
MaxOffset == 2
\* Bytes asked of one read, and reads made in one behaviour.
MaxRead == 3
\* Bytes of the file that is read sequentially.
MaxContent == 4

\* Minimum capacity handed to MappingTable::with_min_capacity.
MinCap == 2
\* Largest key handed to the MappingTable, and the calls made on it.
MaxKey == 3
MaxMapCalls == 4
\* Frames in the file handed to the Log Reader.
MaxFrames == 3

(* --------------------------------------------------------------- helpers *)
Min(a, b) == IF a < b THEN a ELSE b

Max(a, b) == IF a > b THEN a ELSE b

Zeros(n) == [i \in 1..n |-> 0]

\* The bytes of a caller's data: position p of the stream holds 1 + p % 7,
\* never 0, so a byte at a wrong place or a padding byte shows.
Data(n, start) == [i \in 1..n |-> 1 + ((start + i - 1) % 7)]

\* data[from..] of Rust, 0-based from.
SliceFrom(data, from) == SubSeq(data, from + 1, Len(data))

\* pwrite/write of data at a 0-based file offset; a hole reads as zeros.
WriteAt(file, offset, data) ==
  [i \in 1..Max(Len(file), offset + Len(data)) |->
     IF i > offset /\ i <= offset + Len(data) THEN data[i - offset]
     ELSE IF i <= Len(file) THEN file[i] ELSE 0]

(* --------------------------------------------- status and failure plumbing *)
\* An assertion that fails: the thread panics and the handler never returns.
Panic(w, what) == [w EXCEPT !.panic = what]

\* The OS call about to be made fails with an error other than EINTR: it is
\* the one chosen to fail, or the descriptor is not valid (open had failed).
OsFails(w) == w.fail = 1 \/ ~w.fd_open

\* The transfer (write, pwrite) about to be made is interrupted before it
\* moves a byte: it returns -1 with errno EINTR. w.os is what the OS does on
\* the next transfers: 0 is an interrupt, k > 0 a transfer of k bytes at most.
OsInterrupted(w) == ~OsFails(w) /\ w.os # <<>> /\ Head(w.os) = 0

\* The bytes the transfer about to be made moves, of len asked, when it
\* neither fails nor is interrupted.
OsAccepts(w, len) ==
  IF w.os # <<>> /\ Head(w.os) > 0 THEN Min(Head(w.os), len) ELSE len

\* What a write or pwrite of len bytes about to be made returns.
OsDone(w, len) ==
  IF OsFails(w) \/ OsInterrupted(w) THEN 0 - 1 ELSE OsAccepts(w, len)

\* An entry of the log of the calls made on the file handle.
OsLogged(op, off, len, done, errno) ==
  [op |-> op, off |-> off, len |-> len, ok |-> (errno = ""), done |-> done,
   errno |-> errno]

\* One OS call made: count it, log it, remember a failure.
OsCall(w, op, off, len) ==
  [w EXCEPT !.fail = IF @ > 0 THEN @ - 1 ELSE 0,
            !.failed = @ \/ OsFails(w),
            !.g_failures = @ + (IF OsFails(w) THEN 1 ELSE 0),
            !.oslog = Append(@, OsLogged(op, off, len, 0,
                                         IF OsFails(w) THEN "EIO" ELSE ""))]

\* One write or pwrite call made for len bytes at off.
OsTransfer(w, op, off, len) ==
  [w EXCEPT !.fail = IF @ > 0 THEN @ - 1 ELSE 0,
            !.os = IF OsFails(w) \/ @ = <<>> THEN @ ELSE Tail(@),
            !.failed = @ \/ OsFails(w),
            !.g_failures = @ + (IF OsFails(w) THEN 1 ELSE 0),
            !.oslog = Append(@, OsLogged(op, off, len, OsDone(w, len),
                                         IF OsFails(w) THEN "EIO"
                                         ELSE IF OsInterrupted(w) THEN "EINTR"
                                         ELSE ""))]

(* ----------------------------------------------------------- AlignedBuffer *)
Roundup(x, y) == ((x + y - 1) \div y) * y

TruncateToPageBoundary(page_size, s) == s - (s % page_size)

\* AlignedBuffer::allocate_new_buffer(requested_capacity, copy_data)
AllocateNewBuffer(w, requested_capacity, copy_data) ==
  [w EXCEPT !.capacity = Roundup(requested_capacity, w.alignment),
            !.buf = IF copy_data THEN @ ELSE <<>>]

\* AlignedBuffer::append(src, append_size): copies what fits, returns how much.
BufAppended(w, src, append_size) == Min(append_size, w.capacity - Len(w.buf))

BufAppend(w, src, append_size) ==
  [w EXCEPT !.buf = @ \o SubSeq(src, 1, BufAppended(w, src, append_size))]

\* AlignedBuffer::pad_to_aligment_with(padding)
PadToAlignmentWith(w, padding) ==
  LET total == Roundup(Len(w.buf), w.alignment)
      pad == total - Len(w.buf)
  IN IF pad > 0 /\ pad + Len(w.buf) > w.capacity
       THEN Panic(w, "pad_to_aligment_with: pad_size + cursize <= capacity")
       ELSE [w EXCEPT !.buf = @ \o [i \in 1..pad |-> padding]]

\* AlignedBuffer::refit_tail(tail_offset, tail_size)
RefitTail(w, tail_offset, tail_size) ==
  [w EXCEPT !.buf = SubSeq(@, tail_offset + 1, tail_offset + tail_size)]

\* AlignedBuffer::size(cursize)
BufSize(w, cursize) == [w EXCEPT !.buf = SubSeq(@, 1, cursize)]

\* AlignedBuffer::read(buffer_start, size)
BufRead(w, size) == SubSeq(w.buf, 1, size)

(* ------------------------------------------------------- PosixWritableFile *)
\* Faulty variant: the blocks are allocated from the start of the written
\* range, not from the end of the blocks allocated before.
PrepareWrite_FromOffset(w, offset, len) ==
  IF w.preallocation_block_size_ = 0
    THEN [w EXCEPT !.g_prepared = IF offset + len > @ THEN offset + len ELSE @]
  ELSE LET block_size == w.preallocation_block_size_
           new_last == (offset + len + block_size - 1) \div block_size
       IN IF new_last > w.last_preallocated_block_
            THEN [w EXCEPT !.last_preallocated_block_ = new_last,
                           !.g_prepared = IF offset + len > @ THEN offset + len ELSE @,
                           !.oslog = Append(@,
                              OsLogged("fallocate",
                                       block_size * (offset \div block_size),
                                       block_size * (new_last - offset \div block_size),
                                       0, ""))]
            ELSE [w EXCEPT !.g_prepared = IF offset + len > @ THEN offset + len ELSE @]

\* PosixWritableFile::prepare_write; the result of allocate is dropped. The
\* end of the range handed in is noted in g_prepared when no range handed in
\* before reached so far.
PrepareWrite(w, offset, len) ==
  IF w.preallocation_block_size_ = 0
    THEN [w EXCEPT !.g_prepared = IF offset + len > @ THEN offset + len ELSE @]
  ELSE LET block_size == w.preallocation_block_size_
           new_last == (offset + len + block_size - 1) \div block_size
       IN IF new_last > w.last_preallocated_block_
            THEN [w EXCEPT !.last_preallocated_block_ = new_last,
                           !.g_prepared = IF offset + len > @ THEN offset + len ELSE @,
                           !.oslog = Append(@,
                              OsLogged("fallocate",
                                       block_size * w.last_preallocated_block_,
                                       block_size * (new_last - w.last_preallocated_block_),
                                       0, ""))]
            ELSE [w EXCEPT !.g_prepared = IF offset + len > @ THEN offset + len ELSE @]

\* PosixWritableFile::append: one write(2) at the descriptor's position; a
\* negative result is an error, any other result counts as the whole data.
PosixAppend(w, data) ==
  IF OsDone(w, Len(data)) < 0
    THEN [OsTransfer(w, "write", w.fdpos, Len(data)) EXCEPT !.s = "ioerror"]
    ELSE [OsTransfer(w, "write", w.fdpos, Len(data)) EXCEPT
            !.file = WriteAt(w.file, w.fdpos,
                             SubSeq(data, 1, OsAccepts(w, Len(data)))),
            !.fdpos = @ + OsAccepts(w, Len(data)),
            !.pf_filesize_ = @ + Len(data),
            !.s = "ok"]

\* libc::pwrite(fd_, src, left, offset): what it does to the file.
Pwrite(w, bytes, offset) ==
  IF OsDone(w, Len(bytes)) < 0 THEN OsTransfer(w, "pwrite", offset, Len(bytes))
  ELSE [OsTransfer(w, "pwrite", offset, Len(bytes)) EXCEPT
          !.file = WriteAt(w.file, offset,
                           SubSeq(bytes, 1, OsAccepts(w, Len(bytes))))]

\* PosixWritableFile::positioned_append, the loop over what is left; src is
\* how far the pointer into data has advanced.
RECURSIVE PositionedAppendLoop(_, _, _, _)
\* Faulty variant: after a short pwrite the pointer into data advances and
\* the file offset does not.
PositionedAppendWritten_OffsetKept(w1, data, src, offset, done, eintr) ==
  IF done < 1
    THEN IF eintr THEN PositionedAppendLoop(w1, data, src, offset)
         ELSE [w1 EXCEPT !.s = "ioerror"]
    ELSE PositionedAppendLoop(w1, data, src + done, offset)

\* ... one pass of the loop after its pwrite returned done (eintr: errno is
\* EINTR).
PositionedAppendWritten(w1, data, src, offset, done, eintr) ==
  IF done < 1
    THEN IF eintr THEN PositionedAppendLoop(w1, data, src, offset)
         ELSE [w1 EXCEPT !.s = "ioerror"]
    ELSE PositionedAppendLoop(w1, data, src + done, offset + done)

PositionedAppendLoop(w, data, src, offset) ==
  IF Len(data) - src = 0 THEN [w EXCEPT !.pf_filesize_ = offset, !.s = "ok"]
  ELSE PositionedAppendWritten(Pwrite(w, SliceFrom(data, src), offset),
                               data, src, offset,
                               OsDone(w, Len(data) - src), OsInterrupted(w))

\* PosixWritableFile::positioned_append; the call is logged before its
\* pwrite calls.
PositionedAppend(w, data, offset) ==
  PositionedAppendLoop(
    [w EXCEPT !.oslog = Append(@, OsLogged("positioned_append", offset,
                                           Len(data), 0, ""))],
    data, 0, offset)

\* PosixWritableFile::close: libc::close releases the descriptor.  Nothing in
\* the program calls it.
PosixClose(w) ==
  IF OsFails(w)
    THEN [OsCall(w, "close", 0, 0) EXCEPT !.s = "ioerror"]
    ELSE [OsCall(w, "close", 0, 0) EXCEPT !.fd_open = FALSE, !.s = "ok"]

\* PosixWritableFile::fcntl: F_GETFL succeeds on a valid descriptor.
Fcntl(w) == w.fd_open

\* PosixWritableFile::flush
PosixFlush(w) ==
  [w EXCEPT !.s = "ok",
            !.oslog = Append(@, OsLogged("flush", 0, 0, 0, ""))]

\* PosixWritableFile::sync
PosixSync(w) ==
  [OsCall(w, "fsync", 0, 0) EXCEPT !.s = IF OsFails(w) THEN "ioerror" ELSE "ok"]

\* PosixWritableFile::range_sync
RangeSync(w, offset, nbytes) ==
  [OsCall(w, "sync_file_range", offset, nbytes) EXCEPT
     !.s = IF OsFails(w) THEN "ioerror" ELSE "ok"]

\* PosixWritableFile::truncate: ftruncate cuts the file or extends it with zeros.
PosixTruncate(w, size) ==
  IF OsFails(w)
    THEN [OsCall(w, "ftruncate", size, 0) EXCEPT !.s = "ioerror"]
    ELSE [OsCall(w, "ftruncate", size, 0) EXCEPT
            !.file = IF size <= Len(w.file) THEN SubSeq(w.file, 1, size)
                     ELSE w.file \o Zeros(size - Len(w.file)),
            !.pf_filesize_ = size,
            !.s = "ok"]

(* ------------------------------------------------------ WritableFileWriter *)
\* A handler's intermediate result is handed to the operator that models the
\* rest of the handler, so that it is computed once.

\* WritableFileWriter::write_direct, the loop over what is left to write.
RECURSIVE WriteDirectLoop(_, _, _, _, _)
\* Faulty variant: the padding stays in the buffer when the write failed.
WriteDirectWritten_PaddingKept(w1, left, size, write_offset, file_advance, leftover_tail) ==
  IF w1.s # "ok" THEN w1
  ELSE IF w1.next_write_offset_ % w1.alignment # 0
    THEN Panic(w1, "write_direct: next_write_offset_ % alignment == 0")
  ELSE WriteDirectLoop(w1, left - size, write_offset + size,
                       file_advance, leftover_tail)

\* ... one pass of the loop after its positioned_append.
WriteDirectWritten(w1, left, size, write_offset, file_advance, leftover_tail) ==
  IF w1.s # "ok" THEN BufSize(w1, file_advance + leftover_tail)
  ELSE IF w1.next_write_offset_ % w1.alignment # 0
    THEN Panic(w1, "write_direct: next_write_offset_ % alignment == 0")
  ELSE WriteDirectLoop(w1, left - size, write_offset + size,
                       file_advance, leftover_tail)

WriteDirectLoop(w, left, write_offset, file_advance, leftover_tail) ==
  IF left = 0 THEN w
  ELSE WriteDirectWritten(PositionedAppend(w, BufRead(w, left), write_offset),
                          left, left, write_offset, file_advance, leftover_tail)

\* Faulty variant: the offset advanced past the tail kept in the buffer.
WriteDirectAdvance_PastTail(w, file_advance) ==
  [w EXCEPT !.next_write_offset_ = @ + file_advance + Len(w.buf)]

\* The statement that ends a successful write_direct.
WriteDirectAdvance(w, file_advance) ==
  [w EXCEPT !.next_write_offset_ = file_advance]

\* ... write_direct after its loop.
WriteDirectEnd(w2, file_advance, leftover_tail) ==
  IF w2.panic # "" \/ w2.s # "ok" THEN w2
  ELSE WriteDirectAdvance(RefitTail(w2, file_advance, leftover_tail), file_advance)

\* ... write_direct once the buffer is padded.
WriteDirectPadded(w1, file_advance, leftover_tail) ==
  IF w1.panic # "" THEN w1
  ELSE WriteDirectEnd(WriteDirectLoop(w1, Len(w1.buf), w1.next_write_offset_,
                                      file_advance, leftover_tail),
                      file_advance, leftover_tail)

\* WritableFileWriter::write_direct
WriteDirect(w) ==
  IF ~w.use_direct_io_ THEN Panic(w, "write_direct: use_direct_io()")
  ELSE IF w.next_write_offset_ % w.alignment # 0
    THEN Panic(w, "write_direct: next_write_offset_ % alignment == 0")
  ELSE WriteDirectPadded(PadToAlignmentWith([w EXCEPT !.s = "ok"], 0),
                         TruncateToPageBoundary(w.alignment, Len(w.buf)),
                         Len(w.buf) - TruncateToPageBoundary(w.alignment, Len(w.buf)))

\* The assertion that opens write_buffered.
WriteBufferedPrecondition(w) == w.use_direct_io_

\* WritableFileWriter::write_buffered, the loop over what is left to write.
RECURSIVE WriteBufferedLoop(_, _, _, _)
\* ... one pass of the loop after its append.
WriteBufferedWritten(w1, data, src, left, allowed) ==
  IF w1.s # "ok" THEN w1
  ELSE WriteBufferedLoop(w1, data, src + allowed, left - allowed)

WriteBufferedLoop(w, data, src, left) ==
  IF left = 0 THEN [BufSize(w, 0) EXCEPT !.s = "ok"]
  ELSE WriteBufferedWritten(PosixAppend(w, SubSeq(data, src + 1, src + left)),
                            data, src, left, left)

\* WritableFileWriter::write_buffered
WriteBuffered(w, data, size) ==
  IF ~WriteBufferedPrecondition(w)
    THEN Panic(w, "write_buffered: use_direct_io()")
    ELSE WriteBufferedLoop(w, data, 0, size)

\* ... flush, the range sync it issues up to offset_sync_to.
FlushSyncTo(w, offset_sync_to) ==
  IF offset_sync_to < w.last_sync_size_
    THEN Panic(w, "flush: offset_sync_to >= last_sync_size_")
  ELSE IF offset_sync_to > 0
          /\ offset_sync_to - w.last_sync_size_ >= w.bytes_per_sync_
    THEN [RangeSync(w, w.last_sync_size_, offset_sync_to - w.last_sync_size_)
            EXCEPT !.last_sync_size_ = offset_sync_to]
  ELSE w

\* WritableFileWriter::flush, the sync cadence that ends it.
FlushSync(w) ==
  IF ~w.use_direct_io_ /\ w.bytes_per_sync_ > 0 /\ w.filesize_ > kBytesNotSyncRange
    THEN FlushSyncTo(w, (w.filesize_ - kBytesNotSyncRange)
                        - ((w.filesize_ - kBytesNotSyncRange) % kBytesAlignWhenSync))
    ELSE w

\* ... flush after the buffer was written (wrote: the buffer held data).
FlushWritten(w1, wrote) ==
  IF w1.panic # "" THEN w1
  ELSE IF wrote /\ w1.s # "ok" THEN w1
  ELSE FlushSync(PosixFlush(w1))

\* WritableFileWriter::flush
Flush(w) ==
  IF Len(w.buf) > 0
    THEN FlushWritten(IF w.use_direct_io_ THEN WriteDirect(w)
                      ELSE WriteBuffered(w, BufRead(w, Len(w.buf)), Len(w.buf)),
                      TRUE)
    ELSE FlushWritten([w EXCEPT !.s = "corruption"], FALSE)

\* WritableFileWriter::append, the search for a larger buffer.
RECURSIVE GrowBuffer(_, _, _)
GrowBuffer(w, cap, left) ==
  IF cap < w.max_buffer_size_
    THEN IF Min(cap * 2, w.max_buffer_size_) - Len(w.buf) >= left
            \/ (w.use_direct_io_ /\ Min(cap * 2, w.max_buffer_size_) = w.max_buffer_size_)
           THEN AllocateNewBuffer(w, Min(cap * 2, w.max_buffer_size_), TRUE)
           ELSE GrowBuffer(w, cap * 2, left)
    ELSE w

\* WritableFileWriter::append, the loop that copies the data into the buffer.
RECURSIVE AppendLoop(_, _, _, _)
\* Faulty variant: the loop stops after its first flush, failed or not.
AppendLoopFlushed_StopsAfterFlush(w2, slice, src, left) ==
  IF w2.panic # "" THEN w2
  ELSE [w2 EXCEPT !.g_loop[Len(w2.g_loop)].after = Len(w2.buf),
                  !.g_loop[Len(w2.g_loop)].s = w2.s]

\* ... one pass of the loop after its flush; the pass is noted in g_loop with
\* the size of the buffer after the flush and the flush's status.
AppendLoopFlushed(w2, slice, src, left) ==
  IF w2.panic # "" THEN w2
  ELSE IF w2.s # "ok"
    THEN [w2 EXCEPT !.g_loop[Len(w2.g_loop)].after = Len(w2.buf),
                    !.g_loop[Len(w2.g_loop)].s = w2.s]
  ELSE AppendLoop([w2 EXCEPT !.g_loop[Len(w2.g_loop)].after = Len(w2.buf),
                             !.g_loop[Len(w2.g_loop)].s = w2.s],
                  slice, src, left)

\* ... one pass of the loop, buf_.append(slice[src..], left): the bytes the
\* buffer took, its size with them and whether a flush follows are noted in
\* g_loop.
AppendLoopCopied(w, rest, left) ==
  [BufAppend(w, rest, left) EXCEPT
     !.g_loop = Append(@, [copied |-> SubSeq(rest, 1, BufAppended(w, rest, left)),
                           size |-> Len(w.buf) + BufAppended(w, rest, left),
                           flushed |-> left - BufAppended(w, rest, left) > 0,
                           after |-> Len(w.buf) + BufAppended(w, rest, left),
                           s |-> "ok"])]

AppendLoop(w, slice, src, left) ==
  IF left = 0 THEN w
  ELSE IF left - BufAppended(w, SliceFrom(slice, src), left) > 0
    THEN AppendLoopFlushed(Flush(AppendLoopCopied(w, SliceFrom(slice, src), left)),
                           slice,
                           src + BufAppended(w, SliceFrom(slice, src), left),
                           left - BufAppended(w, SliceFrom(slice, src), left))
    ELSE AppendLoopCopied(w, SliceFrom(slice, src), left)

\* What append returns once the data has been dealt with: s is the status of
\* the copy loop or of write_buffered.
AppendReturn(w, s) == "ok"

\* Faulty variant: filesize_ advanced whatever became of the data.
AppendFilesize_Unconditional(w, s, len) == w.filesize_ + len

\* How append accounts the data in filesize_.
AppendFilesize(w, s, len) == IF s = "ok" THEN w.filesize_ + len ELSE w.filesize_

\* ... append after the data was copied or written; failures is the number of
\* failed OS calls before the append.
AppendEnd(w4, left, failures) ==
  IF w4.panic # "" THEN w4
  ELSE [w4 EXCEPT !.filesize_ = AppendFilesize(w4, w4.s, left),
                  !.g_okLen = IF w4.g_failures = failures THEN @ + left ELSE @,
                  !.s = AppendReturn(w4, w4.s)]

\* ... append, the copy into the buffer or the write past it.
AppendCopy(w3, slice, left, failures) ==
  IF w3.use_direct_io_ \/ w3.capacity >= left
    THEN AppendEnd(AppendLoop([w3 EXCEPT !.s = "ok"], slice, 0, left), left, failures)
  ELSE IF Len(w3.buf) # 0
    THEN Panic(w3, "append: buf_.get_current_size() == 0")
  ELSE AppendEnd(WriteBuffered(w3, slice, left), left, failures)

\* ... append after the flush that makes room (flushed: it was made).
AppendFlushed(w3, flushed, slice, left, failures) ==
  IF w3.panic # "" THEN w3
  ELSE IF flushed /\ w3.s # "ok" THEN w3
  ELSE IF Len(w3.buf) # 0
    THEN Panic(w3, "append: buf_.get_current_size() == 0")
  ELSE AppendCopy(w3, slice, left, failures)

\* ... append once the buffer has grown: flush only when buffered I/O.
AppendGrown(w2, slice, left, failures) ==
  IF ~w2.use_direct_io_ /\ w2.capacity - Len(w2.buf) < left
    THEN IF Len(w2.buf) > 0
           THEN AppendFlushed(Flush(w2), TRUE, slice, left, failures)
           ELSE AppendFlushed(w2, FALSE, slice, left, failures)
    ELSE AppendCopy(w2, slice, left, failures)

\* ... append after prepare_write.
AppendPrepared(w1, slice, left, failures) ==
  IF w1.capacity - Len(w1.buf) < left
    THEN AppendGrown(GrowBuffer(w1, w1.capacity, left), slice, left, failures)
    ELSE AppendGrown(w1, slice, left, failures)

\* WritableFileWriter::append
WfwAppend(w, slice) ==
  AppendPrepared(
    PrepareWrite([w EXCEPT !.g_appended = @ \o slice, !.s = "ok",
                           !.pending_sync_ = TRUE],
                 w.filesize_, Len(slice)),
    slice, Len(slice), w.g_failures)

\* Faulty variant: the sync issued whatever the truncate returned.
CloseTruncated_AlwaysSync(t) == PosixSync(t)

\* ... close after the truncate.
CloseTruncated(t) == IF t.s = "ok" THEN PosixSync(t) ELSE t

\* WritableFileWriter::close
WfwClose(w) ==
  IF ~Fcntl(w) THEN [w EXCEPT !.s = "ioerror"]
  ELSE IF w.use_direct_io_
    THEN CloseTruncated(PosixTruncate(w, w.filesize_))
    ELSE [w EXCEPT !.s = "ok"]

\* WritableFileWriter::new over a PosixWritableFile::new (or another
\* WritableFile): the writer, its buffer, its file handle and the file.
\* g_* are history the program does not keep: all the data handed to append,
\* the lengths of the appends that met no failure, the failures injected, the
\* largest end of the ranges handed to prepare_write.
NewWriter(direct, opened, max_buffer_size, bytes_per_sync, prealloc) ==
  [use_direct_io_ |-> direct, fd_open |-> opened, file |-> <<>>, fdpos |-> 0,
   pf_filesize_ |-> 0, preallocation_block_size_ |-> prealloc,
   last_preallocated_block_ |-> 0,
   filesize_ |-> 0, max_buffer_size_ |-> max_buffer_size,
   pending_sync_ |-> FALSE, buf |-> <<>>,
   alignment |-> kAlignment, capacity |-> Roundup(kInitCapacity, kAlignment),
   bytes_per_sync_ |-> bytes_per_sync, last_sync_size_ |-> 0,
   next_write_offset_ |-> 0,
   s |-> "ok", panic |-> "", fail |-> 0, os |-> <<>>, failed |-> FALSE,
   oslog |-> <<>>,
   g_appended |-> <<>>, g_okLen |-> 0, g_failures |-> 0, g_flushes |-> 0,
   g_loop |-> <<>>, g_prepared |-> 0]

(* ------------------------------------------------------------- log format *)
\* db/log_format.rs: the record types and the header sizes.
kZeroType == 0
kFullType == 1
kFirstType == 2
kMiddleType == 3
kLastType == 4
kRecyclableFullType == 5
kRecyclableFirstType == 6
kRecyclableMiddleType == 7
kRecyclableLastType == 8
kHeaderSize == 7
kRecyclableHeaderSize == 11

\* util/hash.rs crc32(seed, bytes), an opaque checksum: a 32-bit value kept as
\* its two 16-bit halves [a, b], extended byte by byte so that it depends on
\* every byte and on their order.
RECURSIVE crc32(_, _)
crc32(seed, bytes) ==
  IF Len(bytes) = 0 THEN seed
  ELSE crc32([a |-> (seed.a + bytes[1] + 1) % 65521,
              b |-> (seed.b + seed.a + bytes[1] + 1) % 65521],
             SubSeq(bytes, 2, Len(bytes)))

\* crc32's seed 0.
kCrcZero == [a |-> 0, b |-> 0]

\* util/coding.rs encode_fixed32: the four bytes, little-endian.
encode_fixed32(v) == <<v.a % 256, v.a \div 256, v.b % 256, v.b \div 256>>

\* util/coding.rs encode_fixed64 of a 64-bit value kept as its four 16-bit
\* limbs, least significant first: the eight bytes, little-endian.
encode_fixed64(v) ==
  <<v[1] % 256, v[1] \div 256, v[2] % 256, v[2] \div 256,
    v[3] % 256, v[3] \div 256, v[4] % 256, v[4] \div 256>>

(* -------------------------------------------------------------- log Writer *)
\* Writer::new: type_crc_[x] = crc32(0, &[x])
type_crc_(t) == crc32(kCrcZero, <<t>>)

\* add_record: header_size from the recycle mode
HeaderSizeOf(recycle) == IF recycle THEN kRecyclableHeaderSize ELSE kHeaderSize

\* Faulty variant: a record's last fragment classified as a middle one and back.
RecordTypeOf_LastMiddleSwapped(begin, end, recycle) ==
  IF begin /\ end THEN (IF recycle THEN kRecyclableFullType ELSE kFullType)
  ELSE IF begin THEN (IF recycle THEN kRecyclableFirstType ELSE kFirstType)
  ELSE IF end THEN (IF recycle THEN kRecyclableMiddleType ELSE kMiddleType)
  ELSE (IF recycle THEN kRecyclableLastType ELSE kLastType)

\* add_record: the classification of a frame
RecordTypeOf(begin, end, recycle) ==
  IF begin /\ end THEN (IF recycle THEN kRecyclableFullType ELSE kFullType)
  ELSE IF begin THEN (IF recycle THEN kRecyclableFirstType ELSE kFirstType)
  ELSE IF end THEN (IF recycle THEN kRecyclableLastType ELSE kLastType)
  ELSE (IF recycle THEN kRecyclableMiddleType ELSE kMiddleType)

\* add_record: the bytes handed to emit_physical_record for a fragment of
\* fragment_length bytes that starts at ptr: ptr.to_vec().
FragmentBytes(ptr, fragment_length) == ptr

\* Faulty variant: the log-number field taken from the upper half of
\* log_number_.
HeaderTail_UpperHalf(t, n, log_number) ==
  <<n % 256, (n \div 256) % 256, t>>
    \o (IF t < kRecyclableFullType THEN <<>>
        ELSE SubSeq(encode_fixed64(log_number), 5, 8))

\* emit_physical_record: buf[4..], the header after the checksum.
HeaderTail(t, n, log_number) ==
  <<n % 256, (n \div 256) % 256, t>>
    \o (IF t < kRecyclableFullType THEN <<>>
        ELSE SubSeq(encode_fixed64(log_number), 1, 4))

\* emit_physical_record: the checksum of a frame.
FrameCrc(t, ptr, n, log_number) ==
  IF t < kRecyclableFullType
    THEN crc32(type_crc_(t), ptr)
    ELSE crc32(crc32(type_crc_(t), HeaderTail(t, n, log_number)), ptr)

\* emit_physical_record: buf[..header_size]
FrameHeader(t, ptr, n, log_number) ==
  encode_fixed32(FrameCrc(t, ptr, n, log_number)) \o HeaderTail(t, n, log_number)

\* Faulty variant: the frame is flushed when manual_flush_ is not set.
EmitPayloadAppended_FlushUnlessManual(d2, manual_flush) ==
  IF d2.panic # "" \/ d2.s # "ok" \/ manual_flush THEN d2
  ELSE Flush([d2 EXCEPT !.g_flushes = @ + 1])

\* ... emit_physical_record after the payload's append; g_flushes counts the
\* calls of dest_.flush() made here.
EmitPayloadAppended(d2, manual_flush) ==
  IF d2.panic # "" \/ d2.s # "ok" \/ ~manual_flush THEN d2
  ELSE Flush([d2 EXCEPT !.g_flushes = @ + 1])

\* ... emit_physical_record after the header's append.
EmitHeaderAppended(d1, ptr, manual_flush) ==
  IF d1.panic # "" \/ d1.s # "ok" THEN d1
  ELSE EmitPayloadAppended(WfwAppend(d1, ptr), manual_flush)

\* Writer::emit_physical_record on the writer L: the frame is noted in the
\* trace with where it starts (boff: block_offset_, pos: bytes appended so
\* far), its payload bytes, whether an OS call had failed before it and how
\* many times add_record had called flush before it.
EmitPhysicalRecord(L, t, ptr, n) ==
  [L EXCEPT
     !.d = EmitHeaderAppended(
             WfwAppend(L.d, FrameHeader(t, ptr, n, L.log_number_)),
             ptr, L.manual_flush_),
     !.block_offset_ =
        @ + (IF t < kRecyclableFullType THEN kHeaderSize
             ELSE kRecyclableHeaderSize) + n,
     !.trace = Append(@, [kind |-> "frame", type |-> t, n |-> n,
                          boff |-> L.block_offset_,
                          pos |-> Len(L.d.g_appended),
                          bytes |-> Len(ptr), failed |-> L.d.failed,
                          flushes |-> L.d.g_flushes])]

RECURSIVE AddRecordLoop(_, _, _, _)
\* ... add_record after a frame was emitted.
AddRecordEmitted(L1, ptr, left, fragment_length) ==
  IF L1.d.panic # "" THEN L1
  ELSE IF ~(L1.d.s = "ok" /\ left - fragment_length > 0) THEN L1
  ELSE AddRecordLoop(L1, SliceFrom(ptr, fragment_length),
                     left - fragment_length, FALSE)

\* ... add_record, the frame of one pass of the loop.
AddRecordFrame(L, ptr, left, begin, header_size) ==
  IF kBlockSize - L.block_offset_ < header_size
    THEN [L EXCEPT !.d = Panic(@, "add_record: kBlockSize - block_offset_ >= header_size")]
    ELSE AddRecordEmitted(
           EmitPhysicalRecord(
             L,
             RecordTypeOf(begin,
                          left = Min(left, kBlockSize - L.block_offset_ - header_size),
                          L.recycle_log_files_),
             FragmentBytes(ptr, Min(left, kBlockSize - L.block_offset_ - header_size)),
             Min(left, kBlockSize - L.block_offset_ - header_size)),
           ptr, left, Min(left, kBlockSize - L.block_offset_ - header_size))

\* Faulty variant: block_offset_ not reset after the padding.
AddRecordPadded_NoReset(L1, ptr, left, begin, header_size) ==
  IF L1.d.panic # "" \/ L1.d.s # "ok" THEN L1
  ELSE AddRecordFrame(L1, ptr, left, begin, header_size)

\* ... add_record after the zeros that fill the block were appended.
AddRecordPadded(L1, ptr, left, begin, header_size) ==
  IF L1.d.panic # "" \/ L1.d.s # "ok" THEN L1
  ELSE AddRecordFrame([L1 EXCEPT !.block_offset_ = 0], ptr, left, begin, header_size)

\* add_record: the zeros that fill the leftover bytes of the block.
PadBlock(L, leftover) ==
  IF leftover > 10
    THEN [L EXCEPT !.d = Panic(@, "add_record: [..leftover] out of range")]
    ELSE [L EXCEPT !.d = WfwAppend(@, Zeros(leftover)),
                   !.trace = Append(@, [kind |-> "pad", type |-> kZeroType,
                                        n |-> leftover,
                                        boff |-> L.block_offset_,
                                        pos |-> Len(L.d.g_appended),
                                        bytes |-> leftover,
                                        failed |-> L.d.failed])]

\* Faulty variant: the block is padded also when a header still fits it
\* exactly.
AddRecordLoop_PadsWhenHeaderFits(L, ptr, left, begin) ==
  IF L.block_offset_ > kBlockSize
    THEN [L EXCEPT !.d = Panic(@, "add_record: kBlockSize - block_offset_ overflows")]
  ELSE IF kBlockSize - L.block_offset_ <= HeaderSizeOf(L.recycle_log_files_)
    THEN IF kBlockSize - L.block_offset_ > 0
           THEN AddRecordPadded(PadBlock(L, kBlockSize - L.block_offset_),
                                ptr, left, begin, HeaderSizeOf(L.recycle_log_files_))
           ELSE AddRecordFrame([L EXCEPT !.block_offset_ = 0], ptr, left, begin,
                               HeaderSizeOf(L.recycle_log_files_))
    ELSE AddRecordFrame(L, ptr, left, begin, HeaderSizeOf(L.recycle_log_files_))

\* Writer::add_record, one pass of its loop.
AddRecordLoop(L, ptr, left, begin) ==
  IF L.block_offset_ > kBlockSize
    THEN [L EXCEPT !.d = Panic(@, "add_record: kBlockSize - block_offset_ overflows")]
  ELSE IF kBlockSize - L.block_offset_ < HeaderSizeOf(L.recycle_log_files_)
    THEN IF kBlockSize - L.block_offset_ > 0
           THEN AddRecordPadded(PadBlock(L, kBlockSize - L.block_offset_),
                                ptr, left, begin, HeaderSizeOf(L.recycle_log_files_))
           ELSE AddRecordFrame([L EXCEPT !.block_offset_ = 0], ptr, left, begin,
                               HeaderSizeOf(L.recycle_log_files_))
    ELSE AddRecordFrame(L, ptr, left, begin, HeaderSizeOf(L.recycle_log_files_))

\* What add_record returns to its caller: it is declared without a result.
AddRecordReturn(L) == "unit"

\* Writer::add_record
AddRecord(L, slice) == AddRecordLoop(L, slice, Len(slice), TRUE)

\* impl Drop for WritableFileWriter: an empty body; its writable_file_, a
\* PosixWritableFile, has no Drop of its own and is freed as it is.
WritableFileWriterDrop(w) == w

\* impl Drop for Writer: self.dest_.close(), then dest_ is dropped.
WriterDrop(d) == WritableFileWriterDrop(WfwClose(d))

(* -------------------------------------------------------------- log Reader *)
\* db/log_reader.rs: frames are taken from the file block by block and
\* reassembled.  R is the reader: its recovery mode, its cursor, whether it is
\* InFragment, the bytes accumulated, the records returned so far, how the
\* read ended, what the last read_record returned (ret, out), and the frames
\* it dispatched with the state it was in when it read each (trace).
NewReader == [mode |-> "AbsoluteConsistency", pos |-> 0, in_fragment |-> FALSE,
              scratch |-> <<>>, records |-> <<>>, status |-> "reading",
              ret |-> FALSE, out |-> <<>>, trace |-> <<>>]

\* The fields of the header that starts at the 0-based offset pos.
HeaderLength(file, pos) == file[pos + 5] + 256 * file[pos + 6]

HeaderType(file, pos) == file[pos + 7]

\* The bytes left in the current block, and in the file, at the cursor.
BlockLeft(pos) == kBlockSize - (pos % kBlockSize)

\* The checksum the reader recomputes for a frame equals the stored one.
ChecksumMatches(file, pos, t, length, hs) ==
  SubSeq(file, pos + 1, pos + 4)
    = encode_fixed32(
        IF t < kRecyclableFullType
          THEN crc32(type_crc_(t), SubSeq(file, pos + hs + 1, pos + hs + length))
          ELSE crc32(crc32(type_crc_(t), SubSeq(file, pos + 5, pos + hs)),
                     SubSeq(file, pos + hs + 1, pos + hs + length)))

\* A corruption event under the reader's recovery mode; next is the offset
\* past the bad frame, tail says that the event is an unterminated or cut
\* frame at the end of the stream.
Corruption(R, next, tail) ==
  IF R.mode = "AbsoluteConsistency"
    THEN [R EXCEPT !.status = "corruption", !.scratch = <<>>]
  ELSE IF R.mode = "TolerateCorruptedTailRecords"
    THEN [R EXCEPT !.status = IF tail THEN "eof" ELSE "corruption",
                   !.scratch = <<>>, !.in_fragment = FALSE]
  ELSE [R EXCEPT !.pos = next, !.in_fragment = FALSE, !.scratch = <<>>]

\* Faulty variant: a First frame read while InFragment starts a new record.
ReadDispatch_FirstRestarts(R, t, payload, next) ==
  IF t = kFullType \/ t = kRecyclableFullType
    THEN IF R.in_fragment THEN Corruption(R, next, FALSE)
         ELSE [R EXCEPT !.pos = next, !.records = Append(@, payload)]
  ELSE IF t = kFirstType \/ t = kRecyclableFirstType
    THEN [R EXCEPT !.pos = next, !.in_fragment = TRUE, !.scratch = payload]
  ELSE IF t = kMiddleType \/ t = kRecyclableMiddleType
    THEN IF ~R.in_fragment THEN Corruption(R, next, FALSE)
         ELSE [R EXCEPT !.pos = next, !.scratch = @ \o payload]
  ELSE IF ~R.in_fragment THEN Corruption(R, next, FALSE)
         ELSE [R EXCEPT !.pos = next, !.in_fragment = FALSE, !.scratch = <<>>,
                        !.records = Append(@, R.scratch \o payload)]

\* The dispatch by record type of a valid frame with the given payload.
ReadDispatch(R, t, payload, next) ==
  IF t = kFullType \/ t = kRecyclableFullType
    THEN IF R.in_fragment THEN Corruption(R, next, FALSE)
         ELSE [R EXCEPT !.pos = next, !.records = Append(@, payload)]
  ELSE IF t = kFirstType \/ t = kRecyclableFirstType
    THEN IF R.in_fragment THEN Corruption(R, next, FALSE)
         ELSE [R EXCEPT !.pos = next, !.in_fragment = TRUE, !.scratch = payload]
  ELSE IF t = kMiddleType \/ t = kRecyclableMiddleType
    THEN IF ~R.in_fragment THEN Corruption(R, next, FALSE)
         ELSE [R EXCEPT !.pos = next, !.scratch = @ \o payload]
  ELSE IF ~R.in_fragment THEN Corruption(R, next, FALSE)
         ELSE [R EXCEPT !.pos = next, !.in_fragment = FALSE, !.scratch = <<>>,
                        !.records = Append(@, R.scratch \o payload)]

\* One physical frame at the cursor.
ReadFrame(file, R, t, length, hs, log_number) ==
  IF t = kZeroType /\ length = 0
    THEN [R EXCEPT !.pos = @ + BlockLeft(R.pos)]
  ELSE IF R.pos + hs + length > Min(R.pos + BlockLeft(R.pos), Len(file))
    THEN Corruption(R, Min(R.pos + BlockLeft(R.pos), Len(file)),
                    R.pos + hs + length > Len(file))
  ELSE IF t = kZeroType \/ t > kRecyclableLastType
    THEN IF R.in_fragment THEN Corruption(R, R.pos + hs + length, FALSE)
         ELSE [R EXCEPT !.pos = @ + hs + length]
  ELSE IF ~ChecksumMatches(file, R.pos, t, length, hs)
    THEN Corruption(R, R.pos + hs + length, FALSE)
  ELSE IF t >= kRecyclableFullType
          /\ SubSeq(file, R.pos + 8, R.pos + 11) # SubSeq(encode_fixed64(log_number), 1, 4)
    THEN IF R.in_fragment THEN Corruption(R, R.pos + hs + length, FALSE)
         ELSE [R EXCEPT !.pos = @ + hs + length]
  ELSE ReadDispatch(
         [R EXCEPT !.trace = Append(@, [type |-> t, in_fragment |-> R.in_fragment,
                      payload |-> SubSeq(file, R.pos + hs + 1, R.pos + hs + length)])],
         t, SubSeq(file, R.pos + hs + 1, R.pos + hs + length),
         R.pos + hs + length)

\* One pass of the loop of read_record: the end of the stream, the padding of
\* a block, or one frame.
ReadStep(file, R, log_number) ==
  IF Len(file) - R.pos <= 0
    THEN IF R.in_fragment THEN Corruption(R, Len(file), TRUE)
         ELSE [R EXCEPT !.status = "eof"]
  ELSE IF BlockLeft(R.pos) < kHeaderSize
    THEN [R EXCEPT !.pos = @ + BlockLeft(R.pos)]
  ELSE IF Len(file) - R.pos < kHeaderSize
    THEN Corruption(R, Len(file), TRUE)
  ELSE ReadFrame(file, R, HeaderType(file, R.pos), HeaderLength(file, R.pos),
                 IF HeaderType(file, R.pos) >= kRecyclableFullType
                   THEN kRecyclableHeaderSize ELSE kHeaderSize,
                 log_number)

\* Reader::readRecord: frames are read until a record is complete (true, the
\* record in out) or the read ends (false).
RECURSIVE ReadRecordLoop(_, _, _, _)
ReadRecordLoop(file, R, log_number, had) ==
  IF R.status # "reading" THEN [R EXCEPT !.ret = FALSE, !.out = <<>>]
  ELSE IF Len(R.records) > had
    THEN [R EXCEPT !.ret = TRUE, !.out = R.records[Len(R.records)]]
  ELSE ReadRecordLoop(file, ReadStep(file, R, log_number), log_number, had)

ReadRecord(file, R, log_number) ==
  ReadRecordLoop(file, R, log_number, Len(R.records))

\* Reader::readRecord called until the end of the stream.
RECURSIVE ReadRecords(_, _, _)
ReadRecords(file, R, log_number) ==
  IF R.status # "reading" THEN R
  ELSE ReadRecords(file, ReadRecord(file, R, log_number), log_number)

(* ----------------------------------------------------- PosixSequentialFile *)
\* PosixSequentialFile::new over a file of the given content: the stream
\* file_ with its cursor and its end-of-file and error indicators, and the
\* thread's errno.  fail and os are what the OS does on the next fread calls
\* (fail = 1: an error other than EINTR; os: 0 an interrupt before any byte,
\* k > 0 an interrupt after k bytes) or on the next fseek; ret is what fseek
\* returned.
NewStream(content) ==
  [content |-> content, pos |-> 0, eof |-> FALSE, err |-> FALSE, errno |-> "",
   fail |-> 0, os |-> <<>>, r |-> 0, ret |-> 0, scratch |-> <<>>, s |-> "ok",
   g_eintr |-> FALSE, g_failed |-> FALSE, g_end |-> FALSE]

\* The bytes between the cursor and the end of the file.
StreamLeft(F) == IF F.pos > Len(F.content) THEN 0 ELSE Len(F.content) - F.pos

\* fread_unlocked(scratch, 1, n, file_) that runs to its end: it takes what
\* the file still has, n bytes at most, and sets the end-of-file indicator
\* when the file has fewer.
FreadWhole(F, n) ==
  [F EXCEPT !.r = Min(n, StreamLeft(F)),
            !.scratch = SubSeq(F.content, F.pos + 1, F.pos + Min(n, StreamLeft(F)))
                          \o Zeros(n - Min(n, StreamLeft(F))),
            !.pos = @ + Min(n, StreamLeft(F)),
            !.eof = @ \/ StreamLeft(F) < n,
            !.g_end = StreamLeft(F) < n,
            !.os = IF @ = <<>> THEN @ ELSE Tail(@)]

\* fread_unlocked cut short after k bytes: the error indicator is set and
\* errno says why.
FreadCut(F, n, k, errno) ==
  [F EXCEPT !.r = k,
            !.scratch = SubSeq(F.content, F.pos + 1, F.pos + k) \o Zeros(n - k),
            !.pos = @ + k,
            !.err = TRUE, !.errno = errno,
            !.g_end = FALSE,
            !.g_eintr = @ \/ errno = "EINTR",
            !.g_failed = @ \/ errno = "EIO",
            !.fail = IF @ > 0 THEN @ - 1 ELSE 0,
            !.os = IF errno = "EIO" \/ @ = <<>> THEN @ ELSE Tail(@)]

\* fread_unlocked(scratch, 1, n, file_)
Fread(F, n) ==
  IF F.fail = 1 THEN FreadCut(F, n, 0, "EIO")
  ELSE IF F.os # <<>> /\ Head(F.os) < Min(n, StreamLeft(F))
    THEN FreadCut(F, n, Head(F.os), "EINTR")
    ELSE FreadWhole([F EXCEPT !.fail = IF @ > 0 THEN @ - 1 ELSE 0], n)

\* clearerr(file_)
Clearerr(F) == [F EXCEPT !.eof = FALSE, !.err = FALSE]

\* PosixSequentialFile::read, the loop around fread_unlocked.
RECURSIVE SeqReadLoop(_, _)
\* ... one pass of the loop after its fread_unlocked on the stream F0.  A
\* pass that repeats with nothing changed repeats for ever: the call hangs.
SeqReadFread(F0, F1, n) ==
  IF ~(F1.err /\ F1.errno = "EINTR" /\ F1.r = 0) THEN F1
  ELSE IF F1 = F0 THEN [F1 EXCEPT !.s = "hang"]
  ELSE SeqReadLoop(F1, n)

SeqReadLoop(F, n) == SeqReadFread(F, Fread(F, n), n)

\* ... read, what is left in result: result.extend_from_slice(scratch) and
\* result.split_off(r).
SeqReadResult(result, scratch, r) == SubSeq(result \o scratch, 1, r)

\* ... read after its loop: the status, and clearerr at the end of the file.
SeqReadEnd(F) ==
  IF F.s = "hang" THEN F
  ELSE IF F.r < Len(F.scratch)
    THEN IF ~F.eof THEN [F EXCEPT !.s = "ioerror"] ELSE Clearerr(F)
    ELSE F

\* PosixSequentialFile::read(n, result, _scratch) on the stream
SeqRead(F, n) ==
  SeqReadEnd(SeqReadLoop(
    [F EXCEPT !.s = "ok", !.r = 0, !.scratch = Zeros(n), !.g_eintr = FALSE,
              !.g_failed = FALSE, !.g_end = FALSE], n))

\* fseek(file_, n, SEEK_CUR): 0 and the cursor moved by n, the end-of-file
\* indicator cleared; or -1, errno set and the cursor where it was, when the
\* OS fails or the cursor would be before the start of the file.
Fseek(F, n) ==
  IF F.fail = 1 \/ F.pos + n < 0
    THEN [F EXCEPT !.ret = 0 - 1, !.errno = IF F.fail = 1 THEN "EIO" ELSE "EINVAL",
                   !.g_failed = TRUE, !.fail = 0]
    ELSE [F EXCEPT !.ret = 0, !.pos = @ + n, !.eof = FALSE]

\* PosixSequentialFile::skip(n)
SeqSkip(F, n) ==
  [Fseek(F, n) EXCEPT !.s = IF Fseek(F, n).ret > 0 THEN "ioerror" ELSE "ok",
                      !.g_eintr = FALSE]

(* ------------------------------------------------------------ MappingTable *)
\* usize::next_power_of_two
RECURSIVE PowerOfTwoFrom(_, _)
PowerOfTwoFrom(p, n) == IF p >= n THEN p ELSE PowerOfTwoFrom(2 * p, n)

NextPowerOfTwo(n) == PowerOfTwoFrom(1, n)

\* A slot of a buffer that was allocated and never written: reading it gives
\* whatever the memory holds.
Uninit == 0 - 1

\* What a read of memory that was never written may give: T's default (0)
\* or any other value.
Garbage == {0, 1, 7}

\* Buffer::new(cap): Vec::with_capacity(cap), forgotten; no slot is written.
BufferNew(cap) == [i \in 1..cap |-> Uninit]

\* Buffer::at(index): index & (cap - 1), as a 1-based position; cap is a
\* power of two, and the mask of a negative index is not negative.
At(buffer, index) == (index % Len(buffer)) + 1

\* Buffer::write(index, value)
BufferWrite(buffer, index, value) == [buffer EXCEPT ![At(buffer, index)] = value]

\* Buffer::read(index); g is what the memory holds where it was never written.
BufferRead(buffer, index, g) ==
  IF buffer[At(buffer, index)] = Uninit THEN g ELSE buffer[At(buffer, index)]

\* Inner::with_min_capacity(min_cap)
NewInner(min_cap) ==
  [bottom |-> 0, top |-> 0, buffer |-> BufferNew(NextPowerOfTwo(min_cap)),
   min_cap |-> NextPowerOfTwo(min_cap)]

\* Inner::resize, the copy loop: while i != b, copy old.at(i) to new.at(i).
RECURSIVE ResizeCopy(_, _, _, _)
ResizeCopy(old, new, i, b) ==
  IF i = b THEN new
  ELSE ResizeCopy(old, [new EXCEPT ![At(new, i)] = old[At(old, i)]], i + 1, b)

\* Inner::resize(new_cap)
Resize(I, new_cap) ==
  [I EXCEPT !.buffer = ResizeCopy(I.buffer, BufferNew(new_cap), I.top, I.bottom)]

\* MappingTable::set, the buffer it writes to: doubled if len >= cap.
SetGrown(I) ==
  IF I.bottom - I.top >= Len(I.buffer) THEN Resize(I, 2 * Len(I.buffer)) ELSE I

\* Faulty variant: a set that grows the buffer writes the value to the buffer
\* it had loaded before, and the value is lost with it.
MapSetOf_LostOnGrowth(I, key, value) ==
  IF I.bottom - I.top >= Len(I.buffer)
    THEN [SetGrown(I) EXCEPT !.bottom = I.bottom + 1]
    ELSE [I EXCEPT !.buffer = BufferWrite(@, key, value), !.bottom = I.bottom + 1]

\* MappingTable::set(key, value)
MapSetOf(I, key, value) ==
  [SetGrown(I) EXCEPT !.buffer = BufferWrite(@, key, value),
                      !.bottom = I.bottom + 1]

\* Option<T>
None == [some |-> FALSE, v |-> 0]
Some(x) == [some |-> TRUE, v |-> x]

\* MappingTable::get(key)
MapGetOf(I, key, g) ==
  IF I.bottom - I.top <= 0 THEN None
  ELSE IF BufferRead(I.buffer, key, g) = 0 THEN None
  ELSE Some(BufferRead(I.buffer, key, g))

\* MappingTable::remove(key), what it returns
MapRemoveReturn(I) == I.bottom - I.top > 0

\* MappingTable::remove(key)
MapRemoveOf(I, key) ==
  IF I.bottom - I.top <= 0 THEN I
  ELSE [I EXCEPT !.buffer = BufferWrite(@, key, 0)]

\* A handler is entered: the OS call that will fail in it is chosen (0: none).
Enter(w, f) ==
  [w EXCEPT !.fail = f, !.os = <<>>, !.failed = FALSE, !.oslog = <<>>,
            !.g_flushes = 0, !.g_loop = <<>>]

\* ... with what the OS does on the handler's transfers.
EnterWith(w, f, os) == [Enter(w, f) EXCEPT !.os = os]

\* The handler has returned: a failure that was not reached is not carried
\* into the next handler.
Leave(w) == [w EXCEPT !.fail = 0, !.os = <<>>]

(* ------------------------------------------------------------------ state *)
VARIABLES
  dest_,               \* the WritableFileWriter, its file handle, the file
  block_offset_,       \* Writer.block_offset_
  log_number_,         \* Writer.log_number_
  recycle_log_files_,  \* Writer.recycle_log_files_
  manual_flush_,       \* Writer.manual_flush_
  dropped,             \* the Writer was dropped
  recovered,           \* what the Reader returned from the file, once read
  frames,              \* history: the frames and paddings of the last add_record
  written,             \* history: the payloads handed to add_record
  lastCall,            \* history: the call just made and what it returned
  calls,               \* history: the names of the calls made so far
  file_,               \* PosixSequentialFile.file_, the stream that is read
  result,              \* the caller's vector that read fills
  posixCall,           \* history: the last call on a bare file handle
  reader,              \* the Log Reader over the file of file_
  inner,               \* MappingTable.inner: bottom, top and the buffer
  mapCall              \* history: the last call on the MappingTable

vars == <<dest_, block_offset_, log_number_, recycle_log_files_, manual_flush_,
          dropped, recovered, frames, written, lastCall, calls, file_, result,
          posixCall, reader, inner, mapCall>>

readerVars == <<file_, result, posixCall, reader>>

mapVars == <<inner, mapCall>>

\* A call on the MappingTable as the history keeps it, with the call before
\* it and the table before it.
MapCalled(op, key, value, ret, removed) ==
  [op |-> op, key |-> key, value |-> value, ret |-> ret, removed |-> removed,
   prevOp |-> mapCall.op, prevKey |-> mapCall.key, prevValue |-> mapCall.value,
   prevRet |-> mapCall.ret, prevRemoved |-> mapCall.removed, before |-> inner]

NoMapCall ==
  [op |-> "none", key |-> 0, value |-> 0, ret |-> None, removed |-> FALSE,
   prevOp |-> "none", prevKey |-> 0, prevValue |-> 0, prevRet |-> None,
   prevRemoved |-> FALSE, before |-> NewInner(MinCap)]

writerVars == <<block_offset_, log_number_, recycle_log_files_, manual_flush_,
                dropped, recovered, frames, written>>

NotRead == [records |-> <<>>, status |-> "none"]

\* A call as the history keeps it: its name, the length of its data, what it
\* returned, and filesize_, the buffer, block_offset_ and next_write_offset_
\* before it.
Call(op, len, ret) ==
  [op |-> op, len |-> len, ret |-> ret, before |-> dest_.filesize_,
   buf |-> dest_.buf, boff |-> block_offset_,
   offset |-> dest_.next_write_offset_]

NoCall == [op |-> "none", len |-> 0, ret |-> "ok", before |-> 0, buf |-> <<>>,
           boff |-> 0, offset |-> 0]

\* A call on a bare file handle as the history keeps it: its name, its
\* arguments, its status, the file and the caller's vector before it, what
\* the call advances as it was before it (posBefore: the cursor of a read or
\* skip, filesize_ of an append, last_preallocated_block_ of a prepare_write),
\* and whether an EINTR or another error met it.
PosixCalled(op, data, n, off, s, fileBefore, resultBefore, posBefore, eintr, hard) ==
  [op |-> op, data |-> data, n |-> n, off |-> off, s |-> s,
   fileBefore |-> fileBefore,
   resultBefore |-> resultBefore, posBefore |-> posBefore, eintr |-> eintr,
   hard |-> hard, prev |-> posixCall.op, prevS |-> posixCall.s,
   prevEnd |-> file_.g_end]

NoPosixCall ==
  [op |-> "none", data |-> <<>>, n |-> 0, off |-> 0, s |-> "ok",
   fileBefore |-> <<>>,
   resultBefore |-> <<>>, posBefore |-> 0, eintr |-> FALSE, hard |-> FALSE,
   prev |-> "none", prevS |-> "ok", prevEnd |-> FALSE]

\* What the OS does on the transfers of a flush: all of them whole, the first
\* interrupted, the first taking one byte only.
OsScripts == {<<>>, <<0>>, <<1>>}

\* One failure is injected per behaviour at most.
MayFail(f) == f = 0 \/ dest_.g_failures = 0

(* ------------------------------------------- SpecFile: the file writer alone *)
FileInit ==
  /\ dest_ \in {NewWriter(d, o, m, BytesPerSync, PreallocationBlockSize) :
                   d \in BOOLEAN, o \in BOOLEAN,
                   m \in {kInitCapacity \div 2, 2 * kInitCapacity}}
  /\ block_offset_ = 0 /\ log_number_ = <<0, 0, 0, 0>>
  /\ recycle_log_files_ = FALSE /\ manual_flush_ = FALSE
  /\ dropped = FALSE /\ recovered = NotRead /\ frames = <<>> /\ written = <<>>
  /\ lastCall = NoCall /\ calls = <<>>
  /\ file_ = NewStream(<<>>) /\ result = <<>> /\ posixCall = NoPosixCall
  /\ inner = NewInner(MinCap) /\ mapCall = NoMapCall /\ reader = NewReader

FileAppend ==
  \E n \in 0..MaxData, f \in 0..MaxFail :
    /\ Len(calls) < MaxCalls /\ dest_.panic = "" /\ MayFail(f)
    /\ dest_' = Leave(WfwAppend(Enter(dest_, f), Data(n, Len(dest_.g_appended))))
    /\ lastCall' = Call("append", n, dest_'.s)
    /\ calls' = Append(calls, "append")
    /\ UNCHANGED <<writerVars, readerVars, mapVars>>

FileFlush ==
  \E f \in 0..MaxFail, os \in OsScripts :
    /\ Len(calls) < MaxCalls /\ dest_.panic = "" /\ MayFail(f)
    /\ dest_' = Leave(Flush(EnterWith(dest_, f, os)))
    /\ lastCall' = Call("flush", 0, dest_'.s)
    /\ calls' = Append(calls, "flush")
    /\ UNCHANGED <<writerVars, readerVars, mapVars>>

FileClose ==
  \E f \in 0..MaxFail :
    /\ Len(calls) < MaxCalls /\ dest_.panic = "" /\ MayFail(f)
    /\ dest_' = Leave(WfwClose(Enter(dest_, f)))
    /\ lastCall' = Call("close", 0, dest_'.s)
    /\ calls' = Append(calls, "close")
    /\ UNCHANGED <<writerVars, readerVars, mapVars>>

FileNext == FileAppend \/ FileFlush \/ FileClose

SpecFile == FileInit /\ [][FileNext]_vars

(* ------------------------- SpecPosix: the OS primitives on a bare handle *)
\* What the OS does on the pwrite calls of one positioned_append.
PwriteScripts == {<<>>, <<0>>, <<1>>, <<0, 0>>, <<1, 0>>, <<2, 1>>}

\* What the OS does on the fread calls of one read.
FreadScripts == {<<>>, <<0>>, <<1>>, <<0, 0>>}

\* Every call so far was made on the handle of this kind.
OnlyCalls(ops) == \A i \in 1..Len(calls) : calls[i] \in ops

\* PosixWritableFile::new("test", ..) and PosixSequentialFile::new over a
\* file of MaxContent bytes.
PosixInit ==
  /\ dest_ = NewWriter(TRUE, TRUE, kInitCapacity, 0, 0)
  /\ block_offset_ = 0 /\ log_number_ = <<1, 0, 0, 0>>
  /\ recycle_log_files_ = FALSE /\ manual_flush_ = FALSE
  /\ dropped = FALSE /\ recovered = NotRead /\ frames = <<>> /\ written = <<>>
  /\ lastCall = NoCall /\ calls = <<>>
  /\ file_ = NewStream(Data(MaxContent, 0)) /\ result = <<>>
  /\ posixCall = NoPosixCall
  /\ inner = NewInner(MinCap) /\ mapCall = NoMapCall /\ reader = NewReader

\* positioned_append(data, offset); the data of the k-th call starts with the
\* byte 3k + 1, that of no other call.
PosixPositionedAppend ==
  \E n \in 0..MaxWrite, offset \in 0..MaxOffset, f \in 0..1, os \in PwriteScripts :
    /\ Len(calls) < MaxPosixCalls /\ MayFail(f)
    /\ OnlyCalls({"append", "positioned_append"})
    /\ \E d \in {PositionedAppend(EnterWith(dest_, f, os),
                                   Data(n, 3 * Len(calls)), offset)} :
         /\ dest_' = Leave(d)
         /\ posixCall' = PosixCalled("positioned_append", Data(n, 3 * Len(calls)),
                                     n, offset, d.s, dest_.file, <<>>, 0,
                                     \E i \in 1..Len(d.oslog) : d.oslog[i].errno = "EINTR",
                                     d.failed)
    /\ calls' = Append(calls, "positioned_append")
    /\ UNCHANGED <<writerVars, lastCall, file_, result, reader, mapVars>>

PosixAppendCall ==
  \E n \in 0..MaxWrite, f \in 0..1, os \in OsScripts :
    /\ Len(calls) < MaxPosixCalls /\ MayFail(f)
    /\ OnlyCalls({"append", "positioned_append"})
    /\ \E d \in {PosixAppend(EnterWith(dest_, f, os), Data(n, 3 * Len(calls)))} :
         /\ dest_' = Leave(d)
         /\ posixCall' = PosixCalled("append", Data(n, 3 * Len(calls)), n,
                                     dest_.fdpos, d.s, dest_.file, <<>>,
                                     dest_.pf_filesize_,
                                     \E i \in 1..Len(d.oslog) : d.oslog[i].errno = "EINTR",
                                     d.failed)
    /\ calls' = Append(calls, "append")
    /\ UNCHANGED <<writerVars, lastCall, file_, result, reader, mapVars>>

\* read(n, result, scratch); the caller hands in a new vector or the one the
\* last read filled.  The stream enters the call with what the OS does in
\* it (fail, os) and leaves it without.
PosixRead ==
  \E n \in 0..MaxRead, f \in 0..1, os \in FreadScripts, reuse \in BOOLEAN :
    /\ Len(calls) < MaxRead /\ posixCall.s # "hang"
    /\ OnlyCalls({"read", "skip"})
    /\ f = 0 \/ ~file_.g_failed
    /\ \E F \in {SeqRead([file_ EXCEPT !.fail = f, !.os = os], n)} :
         /\ file_' = [F EXCEPT !.fail = 0, !.os = <<>>]
         /\ result' = IF F.s = "hang" THEN result
                      ELSE SeqReadResult(IF reuse THEN result ELSE <<>>,
                                         F.scratch, F.r)
         /\ posixCall' = PosixCalled("read", <<>>, n, 0, F.s, <<>>,
                                     IF reuse THEN result ELSE <<>>,
                                     file_.pos, F.g_eintr, F.g_failed)
    /\ calls' = Append(calls, "read")
    /\ UNCHANGED <<writerVars, lastCall, dest_, reader, mapVars>>

\* skip(n), forward or one byte back.
PosixSkip ==
  \E n \in (0 - 1)..MaxSkip, f \in 0..1 :
    /\ Len(calls) < MaxRead /\ posixCall.s # "hang"
    /\ OnlyCalls({"read", "skip"})
    /\ \E F \in {SeqSkip([file_ EXCEPT !.fail = f, !.os = <<>>], n)} :
         /\ file_' = [F EXCEPT !.fail = 0, !.os = <<>>]
         /\ posixCall' = PosixCalled("skip", <<>>, n, 0, F.s, <<>>, <<>>,
                                     file_.pos, FALSE, F.ret < 0)
    /\ calls' = Append(calls, "skip")
    /\ UNCHANGED <<writerVars, lastCall, dest_, result, reader, mapVars>>

PosixNext ==
  PosixPositionedAppend \/ PosixAppendCall \/ PosixRead \/ PosixSkip

SpecPosix == PosixInit /\ [][PosixNext]_vars

(* ------------------------- SpecPrepare: prepare_write on a bare file handle *)
\* PosixWritableFile::new("test", ..) without preallocation or with blocks
\* of PosixPreallocationBlockSize bytes.
PrepareInit ==
  /\ dest_ \in {NewWriter(TRUE, TRUE, kInitCapacity, 0, b) :
                   b \in {0, PosixPreallocationBlockSize}}
  /\ block_offset_ = 0 /\ log_number_ = <<1, 0, 0, 0>>
  /\ recycle_log_files_ = FALSE /\ manual_flush_ = FALSE
  /\ dropped = FALSE /\ recovered = NotRead /\ frames = <<>> /\ written = <<>>
  /\ lastCall = NoCall /\ calls = <<>>
  /\ file_ = NewStream(<<>>) /\ result = <<>> /\ posixCall = NoPosixCall
  /\ inner = NewInner(MinCap) /\ mapCall = NoMapCall /\ reader = NewReader

\* prepare_write(offset, len) on the bare handle; the log of the OS calls
\* runs on over the calls.
PosixPrepareWrite ==
  \E n \in 0..MaxWrite, offset \in 0..MaxOffset :
    /\ Len(calls) < MaxPrepares
    /\ dest_' = PrepareWrite(dest_, offset, n)
    /\ posixCall' = PosixCalled("prepare_write", <<>>, n, offset, "ok",
                                dest_.file, <<>>, dest_.last_preallocated_block_,
                                FALSE, FALSE)
    /\ calls' = Append(calls, "prepare_write")
    /\ UNCHANGED <<writerVars, lastCall, file_, result, reader, mapVars>>

SpecPrepare == PrepareInit /\ [][PosixPrepareWrite]_vars

(* ------------------------------------------ SpecReader: the Log Reader *)
\* A file of well-formed frames of the given types, the k-th and later ones
\* after the bytes of file, laid out as the Writer lays frames out: a frame
\* that does not fit the block starts the next one after zero padding.  The
\* payload of the k-th frame is the one byte k.
RECURSIVE FramesFile(_, _, _, _)
FramesFile(file, types, k, log_number) ==
  IF k > Len(types) THEN file
  ELSE FramesFile(
         file
           \o (IF BlockLeft(Len(file))
                    < Len(FrameHeader(types[k], <<k>>, 1, log_number)) + 1
                THEN Zeros(BlockLeft(Len(file))) ELSE <<>>)
           \o FrameHeader(types[k], <<k>>, 1, log_number)
           \o <<k>>,
         types, k + 1, log_number)

\* The sequences of at most n plain record types.
RECURSIVE TypeSeqs(_)
TypeSeqs(n) ==
  IF n = 0 THEN {<<>>}
  ELSE TypeSeqs(n - 1)
         \cup {Append(s, ty) : s \in {x \in TypeSeqs(n - 1) : Len(x) = n - 1},
                               ty \in kFullType..kLastType}

\* Reader::new over a file of frames of any types, all legacy or all
\* recyclable, and a recovery mode.
ReaderInit ==
  /\ dest_ = NewWriter(TRUE, TRUE, kInitCapacity, 0, 0)
  /\ block_offset_ = 0 /\ log_number_ = <<1, 0, 0, 0>>
  /\ recycle_log_files_ \in BOOLEAN /\ manual_flush_ = FALSE
  /\ dropped = FALSE /\ recovered = NotRead /\ frames = <<>> /\ written = <<>>
  /\ lastCall = NoCall /\ calls = <<>>
  /\ \E types \in TypeSeqs(MaxFrames) :
       file_ = NewStream(FramesFile(<<>>,
                 [k \in 1..Len(types) |->
                    types[k] + (IF recycle_log_files_ THEN 4 ELSE 0)],
                 1, log_number_))
  /\ result = <<>> /\ posixCall = NoPosixCall
  /\ inner = NewInner(MinCap) /\ mapCall = NoMapCall
  /\ \E mode \in {"AbsoluteConsistency", "TolerateCorruptedTailRecords",
                  "SkipAnyCorruptedRecords", "PointInTimeRecovery"} :
       reader = [NewReader EXCEPT !.mode = mode]

\* reader.readRecord(&mut record, &mut scratch, mode)
ReaderReadRecord ==
  /\ reader.status = "reading"
  /\ reader' = ReadRecord(file_.content, reader, log_number_)
  /\ calls' = Append(calls, "read_record")
  /\ UNCHANGED <<dest_, writerVars, lastCall, file_, result, posixCall, mapVars>>

SpecReader == ReaderInit /\ [][ReaderReadRecord]_vars

(* ------------------------------------------- SpecMap: the MappingTable *)
\* MappingTable::with_min_capacity(MinCap)
MapInit ==
  /\ dest_ = NewWriter(TRUE, TRUE, kInitCapacity, 0, 0)
  /\ block_offset_ = 0 /\ log_number_ = <<1, 0, 0, 0>>
  /\ recycle_log_files_ = FALSE /\ manual_flush_ = FALSE
  /\ dropped = FALSE /\ recovered = NotRead /\ frames = <<>> /\ written = <<>>
  /\ lastCall = NoCall /\ calls = <<>>
  /\ file_ = NewStream(<<>>) /\ result = <<>> /\ posixCall = NoPosixCall
  /\ inner = NewInner(MinCap) /\ mapCall = NoMapCall /\ reader = NewReader

MapSet ==
  \E key \in 0..MaxKey, value \in {1, 2} :
    /\ Len(calls) < MaxMapCalls
    /\ inner' = MapSetOf(inner, key, value)
    /\ mapCall' = MapCalled("set", key, value, None, FALSE)
    /\ calls' = Append(calls, "set")
    /\ UNCHANGED <<dest_, writerVars, lastCall, readerVars>>

MapGet ==
  \E key \in 0..MaxKey, g \in Garbage :
    /\ Len(calls) < MaxMapCalls
    /\ mapCall' = MapCalled("get", key, 0, MapGetOf(inner, key, g), FALSE)
    /\ calls' = Append(calls, "get")
    /\ UNCHANGED <<dest_, writerVars, lastCall, readerVars, inner>>

MapRemove ==
  \E key \in 0..MaxKey :
    /\ Len(calls) < MaxMapCalls
    /\ inner' = MapRemoveOf(inner, key)
    /\ mapCall' = MapCalled("remove", key, 0, None, MapRemoveReturn(inner))
    /\ calls' = Append(calls, "remove")
    /\ UNCHANGED <<dest_, writerVars, lastCall, readerVars>>

MapNext == MapSet \/ MapGet \/ MapRemove

SpecMap == MapInit /\ [][MapNext]_vars

(* ------------------------------------- Spec: the Log Writer over its file *)
\* The payload of the k-th record: n bytes, none of them 0.
Payload(n, k) == Data(n, 3 * k)

\* The Writer as add_record sees it.
ThisWriter(d) ==
  [d |-> d, block_offset_ |-> block_offset_, log_number_ |-> log_number_,
   recycle_log_files_ |-> recycle_log_files_, manual_flush_ |-> manual_flush_,
   trace |-> <<>>]

\* test_wal: Writer::new(WritableFileWriter::new(PosixWritableFile::new(..), op), ..)
Init ==
  /\ dest_ \in {NewWriter(d, TRUE, kInitCapacity \div 2, BytesPerSync,
                             PreallocationBlockSize) : d \in BOOLEAN}
  /\ block_offset_ = 0 /\ log_number_ = <<1, 0, 0, 0>>
  /\ recycle_log_files_ \in BOOLEAN /\ manual_flush_ \in BOOLEAN
  /\ dropped = FALSE /\ recovered = NotRead /\ frames = <<>> /\ written = <<>>
  /\ lastCall = NoCall /\ calls = <<>>
  /\ file_ = NewStream(<<>>) /\ result = <<>> /\ posixCall = NoPosixCall
  /\ inner = NewInner(MinCap) /\ mapCall = NoMapCall /\ reader = NewReader

WalAddRecord ==
  \E n \in 0..MaxPayload, f \in 0..MaxFail :
    /\ Len(written) < MaxRecords /\ dest_.panic = "" /\ ~dropped /\ MayFail(f)
    /\ \E L \in {AddRecord(ThisWriter(Enter(dest_, f)), Payload(n, Len(written)))} :
         /\ dest_' = Leave(L.d)
         /\ block_offset_' = L.block_offset_
         /\ frames' = L.trace
         /\ lastCall' = Call("add_record", n, AddRecordReturn(L))
    /\ written' = Append(written, Payload(n, Len(written)))
    /\ calls' = Append(calls, "add_record")
    /\ UNCHANGED <<log_number_, recycle_log_files_, manual_flush_, dropped,
                   recovered, readerVars, mapVars>>

\* The Writer goes out of scope (also when the thread panicked).
WalDrop ==
  /\ ~dropped
  /\ dest_' = Leave(WriterDrop(Enter(dest_, 0)))
  /\ dropped' = TRUE
  /\ lastCall' = Call("drop", 0, "unit")
  /\ calls' = Append(calls, "drop")
  /\ UNCHANGED <<block_offset_, log_number_, recycle_log_files_, manual_flush_,
                 recovered, frames, written, readerVars, mapVars>>

\* test_wal, second half: the file is read back record by record.
WalReadBack ==
  /\ dropped /\ recovered = NotRead
  /\ \E R \in {ReadRecords(dest_.file, NewReader, log_number_)} :
       recovered' = [records |-> R.records, status |-> R.status]
  /\ UNCHANGED <<dest_, block_offset_, log_number_, recycle_log_files_,
                 manual_flush_, dropped, frames, written, lastCall, calls,
                 readerVars, mapVars>>

Next == WalAddRecord \/ WalDrop \/ WalReadBack

Spec == Init /\ [][Next]_vars

(* ------------------- SpecNumber: recycling Writers of several log numbers *)
\* The log numbers of the Writers, as 16-bit limbs, least significant first:
\* 1, and numbers that differ from it in bit 32, in bit 8 and in bit 16 only.
LogNumbers ==
  {<<1, 0, 0, 0>>, <<1, 0, 1, 0>>, <<257, 0, 0, 0>>, <<1, 1, 0, 0>>}

\* Writer::new(.., log_number, true, false) over a direct-I/O file writer.
NumberInit ==
  /\ dest_ = NewWriter(TRUE, TRUE, kInitCapacity \div 2, BytesPerSync,
                       PreallocationBlockSize)
  /\ block_offset_ = 0 /\ log_number_ \in LogNumbers
  /\ recycle_log_files_ = TRUE /\ manual_flush_ = FALSE
  /\ dropped = FALSE /\ recovered = NotRead /\ frames = <<>> /\ written = <<>>
  /\ lastCall = NoCall /\ calls = <<>>
  /\ file_ = NewStream(<<>>) /\ result = <<>> /\ posixCall = NoPosixCall
  /\ inner = NewInner(MinCap) /\ mapCall = NoMapCall /\ reader = NewReader

SpecNumber == NumberInit /\ [][Next]_vars

(* ======================================================= claims, SpecFile *)
\* A pwrite of the last handler failed, and not by an interrupt.
PwriteFailed ==
  \E i \in 1..Len(dest_.oslog) :
    /\ dest_.oslog[i].op = "pwrite" /\ ~dest_.oslog[i].ok
    /\ dest_.oslog[i].errno # "EINTR"

\* C28: when the positioned write of a direct-I/O flush fails, flush returns
\* the error, the buffer holds what it held before the flush (the padding is
\* dropped, no byte of data is), and next_write_offset_ is what it was.
C28_FailedDirectFlush ==
  (lastCall.op = "flush" /\ dest_.use_direct_io_ /\ dest_.panic = ""
     /\ PwriteFailed)
  => /\ lastCall.ret = "ioerror"
     /\ dest_.buf = lastCall.buf
     /\ dest_.next_write_offset_ = lastCall.offset

\* C28 witness: a flush of a buffer that is not a whole number of pages, so
\* that it was padded, whose positioned write failed after an earlier flush
\* had advanced the offset.
C28_Witness ==
  /\ lastCall.op = "flush" /\ dest_.use_direct_io_ /\ dest_.panic = ""
  /\ PwriteFailed
  /\ Len(lastCall.buf) % dest_.alignment # 0
  /\ lastCall.offset > 0

\* The bytes that the first i passes of the last append's loop copied into
\* the buffer.
RECURSIVE LoopCopied(_)
LoopCopied(i) ==
  IF i = 0 THEN <<>> ELSE LoopCopied(i - 1) \o dest_.g_loop[i].copied

\* The data of the last append.
LastAppended ==
  SubSeq(dest_.g_appended, Len(dest_.g_appended) - lastCall.len + 1,
         Len(dest_.g_appended))

\* C24: in direct-I/O mode append returns for data of any length; its loop
\* copies the bytes of the data into the buffer once each and in order, all
\* of them when no flush failed; it flushes exactly when the buffer could
\* not take the rest, each flush that succeeds leaves the buffer smaller
\* than it found it, and a flush that fails is the last thing the loop does.
C24_DirectAppendLoop ==
  (lastCall.op = "append" /\ dest_.use_direct_io_ /\ dest_.panic = "")
  => /\ LoopCopied(Len(dest_.g_loop))
          = SubSeq(LastAppended, 1, Len(LoopCopied(Len(dest_.g_loop))))
     /\ ~dest_.failed => LoopCopied(Len(dest_.g_loop)) = LastAppended
     /\ \A i \in 1..Len(dest_.g_loop) :
          /\ dest_.g_loop[i].flushed
               <=> Len(LoopCopied(i)) < lastCall.len
          /\ dest_.g_loop[i].flushed
               => /\ dest_.g_loop[i].size = dest_.capacity
                  /\ dest_.g_loop[i].s = "ok"
                       => dest_.g_loop[i].after < dest_.g_loop[i].size
                  /\ dest_.g_loop[i].s # "ok" => i = Len(dest_.g_loop)

\* C24 witness: an append of more data than the buffer holds, whose loop
\* flushed twice or more and copied all of the data.
C24_Witness ==
  /\ lastCall.op = "append" /\ dest_.use_direct_io_ /\ dest_.panic = ""
  /\ ~dest_.failed /\ lastCall.len > dest_.capacity
  /\ Len(dest_.g_loop) >= 3 /\ dest_.g_loop[2].flushed

\* C24's other case: a flush of the loop failed.
C24_FailedFlushCase ==
  /\ lastCall.op = "append" /\ dest_.use_direct_io_ /\ dest_.panic = ""
  /\ dest_.g_loop # <<>> /\ dest_.g_loop[Len(dest_.g_loop)].s # "ok"

\* C23 (as stated): in direct-I/O mode, while no OS call has failed,
\* next_write_offset_ is the total of the page-aligned prefixes that the
\* flushes have written so far: the bytes appended less the tail that the
\* buffer retains.
C23_NextWriteOffsetIsBytesFlushed ==
  (dest_.use_direct_io_ /\ dest_.g_failures = 0 /\ dest_.panic = "")
  => dest_.next_write_offset_ = Len(dest_.g_appended) - Len(dest_.buf)

\* The calls made so far are appends and flushes only.
OnlyAppendsAndFlushes == \A i \in 1..Len(calls) : calls[i] \in {"append", "flush"}

\* C3 (as stated): in direct-I/O mode, after appends and flushes whose OS
\* writes all succeeded and the last of which is a flush, the bytes
\* [0, filesize_) of the file are the appended data, in append order.
C3_DirectFileHoldsAppendedData ==
  (dest_.use_direct_io_ /\ lastCall.op = "flush" /\ OnlyAppendsAndFlushes
     /\ dest_.g_failures = 0 /\ dest_.panic = "")
  => (Len(dest_.file) >= dest_.filesize_
      /\ SubSeq(dest_.file, 1, dest_.filesize_) = dest_.g_appended)

\* C8 (as stated): append returns a non-OK status whenever a flush or a file
\* write it performed failed.
C8_AppendReturnsTheFailure ==
  (lastCall.op = "append" /\ dest_.failed /\ dest_.panic = "")
  => lastCall.ret # "ok"

\* C9: filesize_ is the sum of the lengths of the appends whose writes all
\* succeeded: an append that met no failure adds the length of its data, an
\* append whose write failed, a flush and a close add nothing.
C9_FilesizeIsSumOfSucceededAppends == dest_.filesize_ = dest_.g_okLen

\* C9's case: an append whose write failed, after data was accepted.
C9_Witness ==
  /\ lastCall.op = "append" /\ dest_.failed /\ lastCall.len > 0
  /\ dest_.filesize_ > 0 /\ dest_.filesize_ = lastCall.before

\* C10 (as stated): in buffered mode no assertion fails, and a flush of a
\* non-empty buffer writes the whole buffer with one sequential append, leaves
\* the buffer empty and then calls the file handle's flush.
C10_BufferedFlushWritesBuffer ==
  ~dest_.use_direct_io_
  => /\ dest_.panic = ""
     /\ (lastCall.op = "flush" /\ lastCall.buf # <<>> /\ ~dest_.failed)
        => /\ dest_.buf = <<>>
           /\ Len(dest_.oslog) >= 2
           /\ dest_.oslog[1].op = "write" /\ dest_.oslog[1].len = Len(lastCall.buf)
           /\ dest_.oslog[2].op = "flush"

\* The calls of positioned_append that the last handler made.
IsPositionedAppend(e) == e.op = "positioned_append"

PositionedAppends == SelectSeq(dest_.oslog, IsPositionedAppend)

\* C11: a direct-I/O flush hands positioned_append an offset and a length
\* that are multiples of the buffer's alignment, and the assertion
\* next_write_offset_ % alignment == 0 of write_direct holds.
C11_DirectWritesAreAligned ==
  /\ dest_.panic # "write_direct: next_write_offset_ % alignment == 0"
  /\ dest_.next_write_offset_ % dest_.alignment = 0
  /\ \A i \in 1..Len(PositionedAppends) :
       /\ PositionedAppends[i].off % dest_.alignment = 0
       /\ PositionedAppends[i].len % dest_.alignment = 0
       /\ PositionedAppends[i].len > 0

\* C11's case: a flush of a buffer that had to be padded, written past the
\* start of the file.
C11_Witness ==
  /\ lastCall.op = "flush" /\ dest_.use_direct_io_ /\ dest_.panic = ""
  /\ Len(lastCall.buf) % dest_.alignment # 0
  /\ Len(PositionedAppends) = 1
  /\ PositionedAppends[1].off > 0
  /\ PositionedAppends[1].len > Len(lastCall.buf)

\* The calls of range_sync that the last handler made.
IsRangeSync(e) == e.op = "sync_file_range"

RangeSyncs == SelectSeq(dest_.oslog, IsRangeSync)

\* filesize_ at the flush the last handler made: flush leaves it as it is,
\* append advances it after its flushes.
FilesizeAtFlush ==
  IF lastCall.op = "append" THEN lastCall.before ELSE dest_.filesize_

\* The end of the range that flush may sync.
SyncLimit(filesize) ==
  (filesize - kBytesNotSyncRange)
    - ((filesize - kBytesNotSyncRange) % kBytesAlignWhenSync)

\* C12: every range_sync of a flush ends at or before filesize_ less the
\* excluded window, rounded down to the sync alignment, and none is issued
\* while filesize_ is within the window.
C12_SyncExclusionWindow ==
  \A i \in 1..Len(RangeSyncs) :
    /\ FilesizeAtFlush > kBytesNotSyncRange
    /\ RangeSyncs[i].off + RangeSyncs[i].len <= SyncLimit(FilesizeAtFlush)

\* C13: last_sync_size_ never decreases, the assertion offset_sync_to >=
\* last_sync_size_ never fails, and every range_sync starts where the one
\* before it ended, covers bytes_per_sync_ bytes at least and ends at
\* last_sync_size_.
C13_SyncOffsetsAdvance ==
  /\ dest_.panic # "flush: offset_sync_to >= last_sync_size_"
  /\ \A i \in 1..Len(RangeSyncs) :
       /\ RangeSyncs[i].len >= dest_.bytes_per_sync_
       /\ i > 1 => RangeSyncs[i].off = RangeSyncs[i - 1].off + RangeSyncs[i - 1].len
  /\ RangeSyncs # <<>>
     => RangeSyncs[Len(RangeSyncs)].off + RangeSyncs[Len(RangeSyncs)].len
          = dest_.last_sync_size_

\* Why C12 and C13 say nothing of a run of this code: range_sync is issued in
\* buffered mode only, where filesize_ > 0 means the buffer holds data, and a
\* buffered flush of a buffer that holds data fails the assertion of
\* write_buffered before it reaches the sync (C10).  No range_sync is ever
\* issued and last_sync_size_ stays 0.
RangeSyncIsNeverIssued ==
  /\ RangeSyncs = <<>>
  /\ dest_.last_sync_size_ = 0
  /\ (~dest_.use_direct_io_ /\ dest_.filesize_ > 0 /\ dest_.panic = "")
     => dest_.buf # <<>>

\* C14: close on a handle that reports itself closed returns an IOError and
\* issues neither truncate nor sync; on a direct-I/O file it truncates to
\* filesize_, syncs only if the truncate succeeded, and returns the first
\* error of the two.
C14_CloseTruncatesThenSyncs ==
  lastCall.op = "close"
  => /\ ~dest_.fd_open => (lastCall.ret = "ioerror" /\ dest_.oslog = <<>>)
     /\ (dest_.fd_open /\ dest_.use_direct_io_)
        => /\ Len(dest_.oslog) >= 1
           /\ dest_.oslog[1].op = "ftruncate"
           /\ dest_.oslog[1].off = dest_.filesize_
           /\ IF dest_.oslog[1].ok
                THEN /\ Len(dest_.file) = dest_.filesize_
                     /\ Len(dest_.oslog) = 2
                     /\ dest_.oslog[2].op = "fsync"
                     /\ lastCall.ret = IF dest_.oslog[2].ok THEN "ok" ELSE "ioerror"
                ELSE /\ Len(dest_.oslog) = 1
                     /\ lastCall.ret = "ioerror"

\* C14's case: the close of a direct-I/O file whose truncate fails, after
\* data was appended.
C14_Witness ==
  /\ lastCall.op = "close" /\ dest_.fd_open /\ dest_.use_direct_io_
  /\ dest_.filesize_ > 0 /\ dest_.oslog # <<>> /\ ~dest_.oslog[1].ok

\* C14's other case: the close of a handle whose descriptor is not valid.
C14_ClosedHandleCase ==
  lastCall.op = "close" /\ ~dest_.fd_open /\ lastCall.ret = "ioerror"

(* =========================================================== claims, Spec *)
\* The frames of the last add_record, without the paddings.
IsFrame(e) == e.kind = "frame"

FrameEntries == SelectSeq(frames, IsFrame)

\* The last call was an add_record that returned and met no failed OS call.
AddRecordDone ==
  lastCall.op = "add_record" /\ ~dest_.failed /\ dest_.panic = ""

\* The record type of a frame without its variant: 1 Full .. 4 Last.
PlainType(t) == IF t >= kRecyclableFullType THEN t - 4 ELSE t

\* block_offset_ where the first frame of the last add_record started, after
\* the padding if one was due, and the room for its payload.
FirstFrameOffset ==
  IF kBlockSize - lastCall.boff < HeaderSizeOf(recycle_log_files_)
    THEN 0 ELSE lastCall.boff

FirstAvail == kBlockSize - FirstFrameOffset - HeaderSizeOf(recycle_log_files_)

\* C1 (as stated): the records written with add_record and flushed to the file
\* are what the Reader returns from the file, in order, and then end of stream.
C1_RoundTrip ==
  (recovered.status # "none" /\ manual_flush_ /\ dest_.g_failures = 0
     /\ dest_.panic = "")
  => recovered = [records |-> written, status |-> "eof"]

\* C2 (as stated): every frame appends its header and the fragment_length
\* bytes of its fragment only, so block_offset_ is the number of bytes
\* appended to the Buffered File Writer modulo the block size.
C2_FrameIsHeaderAndFragment ==
  dest_.panic = ""
  => /\ \A i \in 1..Len(frames) : frames[i].bytes = frames[i].n
     /\ block_offset_ % kBlockSize = Len(dest_.g_appended) % kBlockSize

\* C4: an add_record that meets no write failure emits Full, or First,
\* Middle*, Last, every frame in the variant of the writer's mode.
C4_FrameTypeSequence ==
  AddRecordDone
  => LET F == FrameEntries
     IN /\ Len(F) >= 1
        /\ \A i \in 1..Len(F) :
             /\ (F[i].type >= kRecyclableFullType) = recycle_log_files_
             /\ F[i].type >= kFullType /\ F[i].type <= kRecyclableLastType
             /\ PlainType(F[i].type) =
                  IF Len(F) = 1 THEN kFullType
                  ELSE IF i = 1 THEN kFirstType
                  ELSE IF i = Len(F) THEN kLastType
                  ELSE kMiddleType

\* C4's case: a record of three frames or more, in recyclable mode.
C4_Witness ==
  AddRecordDone /\ recycle_log_files_ /\ Len(FrameEntries) >= 3

\* C5 (as stated): a payload of avail - 1 or avail bytes is one Full frame; a
\* payload of avail + 1 bytes is a First frame of avail bytes and a Last frame
\* of 1 byte that starts at offset 0 of the next block, nothing between them.
C5_FragmentationBoundary ==
  AddRecordDone
  => LET F == FrameEntries
         hs == HeaderSizeOf(recycle_log_files_)
     IN /\ (lastCall.len = FirstAvail - 1 \/ lastCall.len = FirstAvail)
           => /\ Len(F) = 1 /\ PlainType(F[1].type) = kFullType
              /\ F[1].n = lastCall.len /\ F[1].bytes = lastCall.len
        /\ lastCall.len = FirstAvail + 1
           => /\ Len(F) = 2 /\ frames[Len(frames) - 1].kind = "frame"
              /\ PlainType(F[1].type) = kFirstType
              /\ F[1].n = FirstAvail /\ F[1].bytes = FirstAvail
              /\ PlainType(F[2].type) = kLastType
              /\ F[2].n = 1 /\ F[2].bytes = 1
              /\ F[2].boff = 0
              /\ F[2].pos = F[1].pos + hs + FirstAvail
              /\ F[2].pos % kBlockSize = 0

\* block_offset_ when entry i of the last add_record was reached.
OffsetBefore(i) ==
  IF i = 1 THEN lastCall.boff
  ELSE IF frames[i - 1].kind = "pad" THEN 0
  ELSE frames[i - 1].boff + HeaderSizeOf(recycle_log_files_) + frames[i - 1].n

\* C6: block_offset_ never passes the block size; a header is emitted with
\* room for it in the block (the assertion holds); when less than a header
\* remains, that many zeros are appended, none when the block is full, and
\* block_offset_ is 0 when the header is emitted.
C6_BlockOffsetAndPadding ==
  /\ block_offset_ <= kBlockSize
  /\ dest_.panic # "add_record: kBlockSize - block_offset_ >= header_size"
  /\ dest_.panic # "add_record: kBlockSize - block_offset_ overflows"
  /\ (lastCall.op = "add_record" /\ dest_.panic = "")
     => \A i \in 1..Len(frames) :
          LET hs == HeaderSizeOf(recycle_log_files_)
              left == kBlockSize - OffsetBefore(i)
          IN IF frames[i].kind = "pad"
               THEN /\ left > 0 /\ left < hs
                    /\ frames[i].n = left /\ frames[i].boff = OffsetBefore(i)
                    /\ SubSeq(dest_.g_appended, frames[i].pos + 1,
                              frames[i].pos + left) = Zeros(left)
                    /\ (i < Len(frames) => frames[i + 1].kind = "frame")
               ELSE /\ kBlockSize - frames[i].boff >= hs
                    /\ frames[i].boff = IF left = 0 THEN 0 ELSE OffsetBefore(i)
                    /\ (i > 1 /\ frames[i - 1].kind = "pad" => frames[i].boff = 0)
                    /\ (left = 0 \/ left >= hs)

\* C6's cases: a padding followed by a frame, and a frame that starts a block
\* after a block filled to its last byte.
C6_Witness ==
  /\ lastCall.op = "add_record" /\ dest_.panic = "" /\ Len(frames) >= 3
  /\ \E i \in 1..Len(frames) - 1 :
       frames[i].kind = "pad" /\ frames[i + 1].kind = "frame" /\ frames[i].n > 1
  /\ \E i \in 2..Len(frames) :
       frames[i].kind = "frame" /\ frames[i - 1].kind = "frame" /\ frames[i].boff = 0

\* C27: add_record of an empty payload emits one frame and no more, of type
\* Full (RecyclableFull when log files are recycled), with 0 in its length
\* field and no payload byte after its header; zeros that fill the block come
\* before it exactly when less than a header was left in the block, and
\* block_offset_ ends one header after the place where the frame starts (where
\* it was, or 0 after the padding or after a full block).  The buffer of
\* the file writer is 65536 bytes at least and takes a header whole; where the
\* scaled buffer is smaller than a header and append panics in
\* write_buffered, no case of the program is modelled.
C27_EmptyRecord ==
  (lastCall.op = "add_record" /\ lastCall.len = 0 /\ dest_.panic = "")
  => /\ Len(FrameEntries) = 1
     /\ FrameEntries[1].type
          = (IF recycle_log_files_ THEN kRecyclableFullType ELSE kFullType)
     /\ FrameEntries[1].n = 0 /\ FrameEntries[1].bytes = 0
     /\ Len(dest_.g_appended)
          = FrameEntries[1].pos + HeaderSizeOf(recycle_log_files_)
     /\ SubSeq(dest_.g_appended, FrameEntries[1].pos + 5, FrameEntries[1].pos + 7)
          = <<0, 0, FrameEntries[1].type>>
     /\ frames[Len(frames)].kind = "frame"
     /\ Len(frames) = (IF kBlockSize - lastCall.boff > 0
                          /\ kBlockSize - lastCall.boff
                               < HeaderSizeOf(recycle_log_files_)
                       THEN 2 ELSE 1)
     /\ Len(frames) = 2
          => frames[1].kind = "pad" /\ frames[1].n = kBlockSize - lastCall.boff
     /\ FrameEntries[1].boff
          = (IF kBlockSize - lastCall.boff < HeaderSizeOf(recycle_log_files_)
             THEN 0 ELSE lastCall.boff)
     /\ block_offset_ = FrameEntries[1].boff + HeaderSizeOf(recycle_log_files_)

\* C27 witness: an empty record added when less than a header was left in
\* the block: padding, then the frame at the start of the next block.
C27_Witness ==
  /\ lastCall.op = "add_record" /\ lastCall.len = 0 /\ dest_.panic = ""
  /\ Len(frames) = 2 /\ frames[1].kind = "pad" /\ frames[2].boff = 0
  /\ block_offset_ = HeaderSizeOf(recycle_log_files_)

\* C27's other cases: an empty record in the middle of a block, and one
\* after a block filled to its last byte.
C27_MidBlockCase ==
  /\ lastCall.op = "add_record" /\ lastCall.len = 0 /\ dest_.panic = ""
  /\ Len(frames) = 1 /\ lastCall.boff > 0 /\ frames[1].boff = lastCall.boff

C27_FullBlockCase ==
  /\ lastCall.op = "add_record" /\ lastCall.len = 0 /\ dest_.panic = ""
  /\ Len(frames) = 1 /\ lastCall.boff = kBlockSize

\* C15 (as stated): when the Writer is dropped the close of its OS file
\* handle is called and the descriptor is released.
C15_DropClosesTheDescriptor ==
  dropped
  => /\ ~dest_.fd_open
     /\ lastCall.op = "drop"
        => \E i \in 1..Len(dest_.oslog) : dest_.oslog[i].op = "close"

\* The calls of flush that add_record made after its i-th frame and before
\* the next one.
FlushesAfter(i) ==
  (IF i < Len(FrameEntries) THEN FrameEntries[i + 1].flushes
   ELSE dest_.g_flushes) - FrameEntries[i].flushes

\* C19: with manual_flush_ set, add_record calls flush on its file writer
\* exactly once after each frame and before the next one (a frame whose
\* appends panicked is followed by none), and no fsync is made; with
\* manual_flush_ unset add_record calls flush after no frame.
C19_ManualFlush ==
  lastCall.op = "add_record"
  => /\ \A i \in 1..Len(FrameEntries) :
          IF ~manual_flush_ THEN FlushesAfter(i) = 0
          ELSE IF i < Len(FrameEntries) \/ dest_.panic = "" THEN FlushesAfter(i) = 1
          ELSE FlushesAfter(i) <= 1
     /\ ~manual_flush_ => dest_.g_flushes = 0
     /\ \A k \in 1..Len(dest_.oslog) : dest_.oslog[k].op # "fsync"

\* C19 witness: an add_record with manual_flush_ set that emitted two frames
\* or more and returned.
C19_Witness ==
  /\ lastCall.op = "add_record" /\ manual_flush_ /\ dest_.panic = ""
  /\ Len(FrameEntries) >= 2 /\ dest_.g_flushes >= 2

\* The bytes of the last add_record's appends from, 0-based, from up to to.
Appended(from, to) == SubSeq(dest_.g_appended, from + 1, to)

\* The checksum of a frame of type t over the log-number bytes of its header
\* (recyclable types only) and then its payload.
ChecksumOver(t, log_number_bytes, payload) ==
  crc32(IF t >= kRecyclableFullType THEN crc32(type_crc_(t), log_number_bytes)
        ELSE type_crc_(t),
        payload)

FrameHeaderSize(e) ==
  IF e.type >= kRecyclableFullType THEN kRecyclableHeaderSize ELSE kHeaderSize

\* C20 (as stated): the first 4 bytes of every emitted frame are the crc32
\* seeded with crc32(0, [type]), extended in recyclable mode over exactly the
\* 4 log-number bytes of the header, and then over exactly the n payload
\* bytes of that frame.
C20_ChecksumCoverage ==
  AddRecordDone
  => \A i \in 1..Len(FrameEntries) :
       Appended(FrameEntries[i].pos, FrameEntries[i].pos + 4)
         = encode_fixed32(
             ChecksumOver(FrameEntries[i].type,
                          Appended(FrameEntries[i].pos + kHeaderSize,
                                   FrameEntries[i].pos + kRecyclableHeaderSize),
                          Appended(FrameEntries[i].pos + FrameHeaderSize(FrameEntries[i]),
                                   FrameEntries[i].pos + FrameHeaderSize(FrameEntries[i])
                                     + FrameEntries[i].n)))

\* C7 (as stated): when a write fails during add_record no further frame is
\* emitted and add_record returns the failure.
C7_FailureStopsAndIsReturned ==
  (lastCall.op = "add_record" /\ dest_.failed /\ dest_.panic = "")
  => /\ lastCall.ret = "ioerror"
     /\ \A i \in 1..Len(frames) : frames[i].kind = "frame" => ~frames[i].failed

(* ---------------------------------------------------- claims, SpecPosix *)
\* The pwrite calls of the last call on the writable handle.
IsPwrite(e) == e.op = "pwrite"
PwriteCalls == SelectSeq(dest_.oslog, IsPwrite)

\* The bytes that the first i of the calls P transferred.
RECURSIVE Transferred(_, _)
Transferred(P, i) ==
  IF i = 0 THEN 0
  ELSE Transferred(P, i - 1) + (IF P[i].done > 0 THEN P[i].done ELSE 0)

\* C16: whenever pwrite is interrupted some finite number of times and
\* otherwise accepts a non-empty prefix of what is left, positioned_append
\* returns OK, byte i of data is at file offset offset + i, every other byte of
\* the file is what it was, each pwrite starts where the transfers before it
\* ended and carries all that is left (nothing skipped, nothing written
\* twice), and the handle's filesize_ is offset + len(data).
C16_PositionedAppendCompletes ==
  (posixCall.op = "positioned_append" /\ ~posixCall.hard)
  => /\ posixCall.s = "ok"
     /\ dest_.pf_filesize_ = posixCall.off + posixCall.n
     /\ Len(dest_.file) = IF posixCall.n = 0 THEN Len(posixCall.fileBefore)
                          ELSE Max(Len(posixCall.fileBefore),
                                   posixCall.off + posixCall.n)
     /\ \A i \in 1..Len(dest_.file) :
          dest_.file[i] =
            IF i > posixCall.off /\ i <= posixCall.off + posixCall.n
              THEN posixCall.data[i - posixCall.off]
              ELSE IF i <= Len(posixCall.fileBefore)
                THEN posixCall.fileBefore[i] ELSE 0
     /\ \A i \in 1..Len(PwriteCalls) :
          /\ PwriteCalls[i].off = posixCall.off + Transferred(PwriteCalls, i - 1)
          /\ PwriteCalls[i].len = posixCall.n - Transferred(PwriteCalls, i - 1)
     /\ Transferred(PwriteCalls, Len(PwriteCalls)) = posixCall.n

\* C16 witness: a call at an offset past 0 over earlier data whose first
\* pwrite was short and whose second was interrupted.
C16_Witness ==
  /\ posixCall.op = "positioned_append" /\ ~posixCall.hard
  /\ posixCall.s = "ok" /\ posixCall.off > 0 /\ posixCall.fileBefore # <<>>
  /\ Len(PwriteCalls) >= 3
  /\ PwriteCalls[1].done > 0 /\ PwriteCalls[1].done < PwriteCalls[1].len
  /\ PwriteCalls[2].errno = "EINTR"

\* C17: append, positioned_append and read never return an error because
\* the syscall under them was interrupted: a call that met EINTR, and no
\* other error, does not return an IOError.
C17_InterruptsAreRetried ==
  (/\ posixCall.op \in {"append", "positioned_append", "read"}
   /\ posixCall.eintr /\ ~posixCall.hard)
  => posixCall.s # "ioerror"

\* The bytes that the last read took from the file at the cursor.
BytesRead == SubSeq(file_.content, posixCall.posBefore + 1, file_.pos)

\* The last read came short because the file had no more bytes.
ShortAtEnd == file_.r < posixCall.n /\ file_.g_end

\* C18: read(n) returns an IOError exactly when fewer than n bytes were read
\* and the file was not at its end; a read that came short at the end of the
\* file returns OK with the bytes that were read and leaves the end-of-file
\* and error indicators clear, and the read after it returns OK.
C18_ReadStatus ==
  (posixCall.op = "read" /\ posixCall.s # "hang")
  => /\ posixCall.s = "ioerror" <=> (file_.r < posixCall.n /\ ~ShortAtEnd)
     /\ ShortAtEnd
          => /\ posixCall.s = "ok" /\ result = BytesRead
             /\ ~file_.eof /\ ~file_.err
     /\ (/\ posixCall.prev = "read" /\ posixCall.prevS = "ok"
         /\ posixCall.prevEnd /\ ~posixCall.eintr /\ ~posixCall.hard)
          => posixCall.s = "ok"

(* ------------------------------------------------------ claims, SpecMap *)
\* No set was called on the table so far.
NeverSet == \A i \in 1..Len(calls) : calls[i] # "set"

\* C21: get(k) right after set(k, v) returns Some(v), get(k) right after a
\* remove(k) that returned true returns None, and get on a table on which set
\* was never called returns None.
C21_GetAfterSetAndRemove ==
  mapCall.op = "get"
  => /\ (mapCall.prevOp = "set" /\ mapCall.prevKey = mapCall.key)
          => mapCall.ret = Some(mapCall.prevValue)
     /\ (mapCall.prevOp = "remove" /\ mapCall.prevRemoved
         /\ mapCall.prevKey = mapCall.key)
          => mapCall.ret = None
     /\ NeverSet => mapCall.ret = None

\* C21 witness: get(k) after set(k, v) on a table whose buffer has doubled,
\* for a key at or above the capacity the table had at first.
C21_Witness ==
  /\ mapCall.op = "get" /\ mapCall.prevOp = "set"
  /\ mapCall.prevKey = mapCall.key /\ mapCall.ret.some
  /\ Len(inner.buffer) > NextPowerOfTwo(MinCap)
  /\ mapCall.key >= NextPowerOfTwo(MinCap)

\* C32 (as stated): set(k2, v) and remove(k2) leave what get(k1) returns as
\* it was for every key k1 other than k2, whatever the memory holds where no
\* slot was written; and remove(k) returns true only when get(k) could have
\* returned a value before it.
C32_FrameProperty ==
  /\ mapCall.op \in {"set", "remove"}
       => \A k1 \in (0..MaxKey) \ {mapCall.key}, g \in Garbage :
            MapGetOf(inner, k1, g) = MapGetOf(mapCall.before, k1, g)
  /\ (mapCall.op = "remove" /\ mapCall.removed)
       => \E g \in Garbage : MapGetOf(mapCall.before, mapCall.key, g).some

\* C32, its first half on slots that were written only: a set or a remove of
\* a key changes what get returns for another key whose value is in the table.
C32_WrittenSlotsKept ==
  mapCall.op \in {"set", "remove"}
  => \A k1 \in (0..MaxKey) \ {mapCall.key} :
       mapCall.before.buffer[At(mapCall.before.buffer, k1)] > 0
         => MapGetOf(inner, k1, 0) = MapGetOf(mapCall.before, k1, 0)

\* C32, its second half alone.
C32_RemoveReturn ==
  (mapCall.op = "remove" /\ mapCall.removed)
  => \E g \in Garbage : MapGetOf(mapCall.before, mapCall.key, g).some

\* C33 (as stated): a set that doubles the buffer leaves every other key that
\* held a value with that value: get returns it afterwards as before,
\* whatever the memory holds where no slot was written.
C33_GrowthPreservesContents ==
  (mapCall.op = "set" /\ Len(inner.buffer) > Len(mapCall.before.buffer))
  => \A k \in (0..MaxKey) \ {mapCall.key}, g \in Garbage :
       mapCall.before.buffer[At(mapCall.before.buffer, k)] > 0
         => MapGetOf(inner, k, g) = MapGetOf(mapCall.before, k, g)

\* C33 for the keys below the old capacity whose slot the set did not write:
\* these the copy loop carries over.
C33_LowKeysKept ==
  (mapCall.op = "set" /\ Len(inner.buffer) > Len(mapCall.before.buffer))
  => \A k \in 0..(Len(mapCall.before.buffer) - 1), g \in Garbage :
       (/\ At(inner.buffer, k) # At(inner.buffer, mapCall.key)
        /\ mapCall.before.buffer[At(mapCall.before.buffer, k)] > 0)
         => MapGetOf(inner, k, g) = MapGetOf(mapCall.before, k, g)

\* ... a set has doubled the buffer while a key below the old capacity held
\* a value.
C33_LowKeysCase ==
  /\ mapCall.op = "set" /\ Len(inner.buffer) > Len(mapCall.before.buffer)
  /\ \E k \in 0..(Len(mapCall.before.buffer) - 1) :
       /\ At(inner.buffer, k) # At(inner.buffer, mapCall.key)
       /\ mapCall.before.buffer[At(mapCall.before.buffer, k)] > 0

(* --------------------------------------------------- claims, SpecReader *)
\* The frame that the reader dispatched as its k-th was not one its state
\* allows: Middle or Last while Idle, Full or First while InFragment.
Unexpected(k) ==
  IF PlainType(reader.trace[k].type) \in {kMiddleType, kLastType}
    THEN ~reader.trace[k].in_fragment
    ELSE reader.trace[k].in_fragment

\* The frames i..j that the reader dispatched are one Full frame read while
\* Idle, or First, Middle*, Last with the First read while Idle.
IsRecordRun(i, j) ==
  /\ ~reader.trace[i].in_fragment
  /\ IF i = j THEN PlainType(reader.trace[i].type) = kFullType
     ELSE /\ PlainType(reader.trace[i].type) = kFirstType
          /\ PlainType(reader.trace[j].type) = kLastType
          /\ \A k \in (i + 1)..(j - 1) :
               PlainType(reader.trace[k].type) = kMiddleType

\* The payloads of the dispatched frames i..j, in order.
RECURSIVE RunPayload(_, _)
RunPayload(i, j) ==
  IF i > j THEN <<>> ELSE reader.trace[i].payload \o RunPayload(i + 1, j)

\* C22: read_record returns true only with the payload of one Full frame read
\* while Idle or of First, Middle*, Last frames read one after the other;
\* a frame read in a state that does not allow it is a corruption (the read
\* fails under AbsoluteConsistency) and none of its bytes is in a record.
C22_FragmentStateMachine ==
  /\ reader.ret
       => /\ reader.out = reader.records[Len(reader.records)]
          /\ \E i \in 1..Len(reader.trace) :
               /\ IsRecordRun(i, Len(reader.trace))
               /\ reader.out = RunPayload(i, Len(reader.trace))
  /\ \A r \in 1..Len(reader.records) :
       \E i \in 1..Len(reader.trace), j \in 1..Len(reader.trace) :
         i <= j /\ IsRecordRun(i, j) /\ reader.records[r] = RunPayload(i, j)
  /\ \A k \in 1..Len(reader.trace) :
       Unexpected(k)
       => /\ \A r \in 1..Len(reader.records) :
               \A x \in 1..Len(reader.records[r]) :
                 reader.records[r][x] # reader.trace[k].payload[1]
          /\ reader.mode = "AbsoluteConsistency"
               => reader.status = "corruption" /\ ~reader.ret

\* C22 witness: under SkipAnyCorruptedRecords a frame that the state did not
\* allow was passed over and a record of two frames or more was returned
\* after it.
C22_Witness ==
  /\ reader.mode = "SkipAnyCorruptedRecords" /\ reader.ret
  /\ Len(reader.out) >= 2
  /\ \E k \in 1..Len(reader.trace) : Unexpected(k)

\* The allocate calls made on the handle so far.
Allocated == SelectSeq(dest_.oslog, LAMBDA e : e.op = "fallocate")

\* C25: over any calls of prepare_write on a handle with a block size B > 0,
\* last_preallocated_block_ never decreases, every range handed in so far
\* lies within [0, last_preallocated_block_ * B), and the allocate calls tile
\* that interval from 0 on without gap or overlap; with B = 0 no allocate
\* call is made and nothing of the handle changes.
C25_PrepareWrite ==
  posixCall.op = "prepare_write"
  => /\ dest_.preallocation_block_size_ = 0
          => /\ Allocated = <<>>
             /\ [dest_ EXCEPT !.g_prepared = 0]
                  = NewWriter(TRUE, TRUE, kInitCapacity, 0, 0)
     /\ dest_.preallocation_block_size_ > 0
          => /\ dest_.last_preallocated_block_ >= posixCall.posBefore
             /\ dest_.g_prepared <= dest_.last_preallocated_block_
                                      * dest_.preallocation_block_size_
             /\ \A i \in 1..Len(Allocated) :
                  /\ Allocated[i].len > 0
                  /\ Allocated[i].off
                       = IF i = 1 THEN 0
                         ELSE Allocated[i - 1].off + Allocated[i - 1].len
             /\ dest_.last_preallocated_block_ * dest_.preallocation_block_size_
                  = IF Allocated = <<>> THEN 0
                    ELSE Allocated[Len(Allocated)].off
                           + Allocated[Len(Allocated)].len

\* C25 witness: three calls of prepare_write, two of which allocated, the
\* second of them two blocks at once.
C25_Witness ==
  /\ posixCall.op = "prepare_write" /\ dest_.preallocation_block_size_ > 0
  /\ Len(Allocated) = 2 /\ Len(calls) = 3
  /\ Allocated[2].len > dest_.preallocation_block_size_

\* C25's other cases: three calls that allocated a block each;
C25_ThreeTilesCase ==
  /\ posixCall.op = "prepare_write" /\ Len(Allocated) = 3

\* a call that allocated nothing, as its range lay in the
\* blocks allocated before; a handle without preallocation.
C25_NothingToAllocateCase ==
  /\ posixCall.op = "prepare_write" /\ dest_.preallocation_block_size_ > 0
  /\ posixCall.posBefore = dest_.last_preallocated_block_
  /\ posixCall.posBefore > 0

C25_NoPreallocationCase ==
  /\ posixCall.op = "prepare_write" /\ dest_.preallocation_block_size_ = 0
  /\ Len(calls) = MaxPrepares /\ posixCall.n > 0

\* C26 (as stated): skip(n) returns IOError whenever its seek failed, and OK
\* only when the cursor has moved by n.
C26_SkipStatus ==
  posixCall.op = "skip"
  => /\ posixCall.hard => posixCall.s = "ioerror"
     /\ posixCall.s = "ok" => file_.pos = posixCall.posBefore + posixCall.n

\* The write calls of the last handler.
WriteCalls == SelectSeq(dest_.oslog, LAMBDA e : e.op = "write")

\* C29 (as stated): when append returns OK all the bytes of data are in the
\* file, after what the descriptor had written before, and filesize_ has
\* grown by what the OS accepted.
C29_AppendWritesAll ==
  (posixCall.op = "append" /\ posixCall.s = "ok")
  => /\ dest_.file = WriteAt(posixCall.fileBefore, posixCall.off, posixCall.data)
     /\ dest_.pf_filesize_ - posixCall.posBefore
          = Transferred(WriteCalls, Len(WriteCalls))

\* C30 (as stated): after read(n, result, scratch) has returned, result is
\* the r bytes that were read from the file at the cursor, r <= n, whatever
\* result held when it was handed in.
C30_ReadResult ==
  (posixCall.op = "read" /\ posixCall.s # "hang")
  => /\ file_.r <= posixCall.n
     /\ result = BytesRead

(* ===================================================== claims, SpecNumber *)
\* log_number mod 2^32: the two lower limbs.
LowHalf(log_number) == <<log_number[1], log_number[2], 0, 0>>

\* The bytes that follow the header of the frame e: what emit_physical_record
\* appended as its payload.
FrameBytes(e) ==
  SubSeq(dest_.g_appended, e.pos + kRecyclableHeaderSize + 1,
         e.pos + kRecyclableHeaderSize + e.bytes)

\* The log-number field of the frame e.
NumberField(e) == SubSeq(dest_.g_appended, e.pos + 8, e.pos + 11)

\* C31: the log-number field of every recyclable frame is log_number_ mod
\* 2^32, least significant byte first; the frame is, byte for byte, the one
\* that a Writer whose log number is log_number_ mod 2^32 (or any number equal
\* to it in the low 32 bits) emits for the fragment; and a Writer whose log
\* number differs in the low 32 bits emits another field.
C31_LogNumberField ==
  (lastCall.op = "add_record" /\ recycle_log_files_ /\ dest_.panic = "")
  => \A i \in 1..Len(FrameEntries) :
       /\ NumberField(FrameEntries[i])
            = <<log_number_[1] % 256, log_number_[1] \div 256,
                log_number_[2] % 256, log_number_[2] \div 256>>
       /\ \A other \in LogNumbers \cup {LowHalf(log_number_)} :
            IF LowHalf(other) = LowHalf(log_number_)
              THEN SubSeq(dest_.g_appended, FrameEntries[i].pos + 1,
                          FrameEntries[i].pos + kRecyclableHeaderSize
                            + FrameEntries[i].bytes)
                     = FrameHeader(FrameEntries[i].type,
                                   FrameBytes(FrameEntries[i]),
                                   FrameEntries[i].n, other)
                         \o FrameBytes(FrameEntries[i])
              ELSE NumberField(FrameEntries[i])
                     # SubSeq(FrameHeader(FrameEntries[i].type,
                                          FrameBytes(FrameEntries[i]),
                                          FrameEntries[i].n, other), 8, 11)

\* C31 witness: a Writer whose log number has bits above bit 31 set has
\* emitted a record in two frames.
C31_Witness ==
  /\ lastCall.op = "add_record" /\ recycle_log_files_ /\ dest_.panic = ""
  /\ log_number_ # LowHalf(log_number_)
  /\ Len(FrameEntries) >= 2

\* C31's other case: a Writer whose log number differs from 1 in the low 32
\* bits, above the lowest byte.
C31_LowBitsCase ==
  /\ lastCall.op = "add_record" /\ recycle_log_files_ /\ dest_.panic = ""
  /\ log_number_[2] > 0 /\ Len(FrameEntries) >= 1
====
